---- MODULE Spec2Model ----
(***************************************************************************)
(* StudyHub QA: the event handlers of src/js/main.js as a state machine.   *)
(*                                                                         *)
(* One page is loaded at a time; `page` names it.  Every scenario keeps    *)
(* its state in the DOM elements its handlers read and write; each         *)
(* scenario is one record-valued variable whose fields are those element   *)
(* properties (value, checked, textContent, style.color, disabled, ...).   *)
(*                                                                         *)
(* Text typed by the user is a sequence of one-character strings, so that  *)
(* trim(), toLowerCase(), length and the email shape are computed.         *)
(* Texts the script writes are TLA+ strings.                               *)
(***************************************************************************)
EXTENDS Integers, Sequences, FiniteSets, TLC

VARIABLES page, quiz, login, stateForm, students, members, scores, pager,
          visibility, asyncOp, api, wizard, keyNav, toasts, modal, grid,
          upload, setup, notice

vars == <<page, quiz, login, stateForm, students, members, scores, pager,
          visibility, asyncOp, api, wizard, keyNav, toasts, modal, grid,
          upload, setup, notice>>

\* the variables an action of one scenario leaves alone
NotQuiz == <<page, login, stateForm, students, members, scores, pager,
             visibility, asyncOp, api, wizard, keyNav, toasts, modal, grid,
             upload, setup, notice>>
NotLogin == <<page, quiz, stateForm, students, members, scores, pager,
              visibility, asyncOp, api, wizard, keyNav, toasts, modal, grid,
              upload, setup, notice>>
NotStateForm == <<page, quiz, login, students, members, scores, pager,
                  visibility, asyncOp, api, wizard, keyNav, toasts, modal,
                  grid, upload, setup, notice>>
NotStudents == <<page, quiz, login, stateForm, members, scores, pager,
                 visibility, asyncOp, api, wizard, keyNav, toasts, modal,
                 grid, upload, setup, notice>>
NotMembers == <<page, quiz, login, stateForm, students, scores, pager,
                visibility, asyncOp, api, wizard, keyNav, toasts, modal, grid,
                upload, setup, notice>>
NotScores == <<page, quiz, login, stateForm, students, members, pager,
               visibility, asyncOp, api, wizard, keyNav, toasts, modal, grid,
               upload, setup, notice>>
NotPager == <<page, quiz, login, stateForm, students, members, scores,
              visibility, asyncOp, api, wizard, keyNav, toasts, modal, grid,
              upload, setup, notice>>
NotVisibility == <<page, quiz, login, stateForm, students, members, scores,
                   pager, asyncOp, api, wizard, keyNav, toasts, modal, grid,
                   upload, setup, notice>>
NotAsyncOp == <<page, quiz, login, stateForm, students, members, scores,
                pager, visibility, api, wizard, keyNav, toasts, modal, grid,
                upload, setup, notice>>
NotApi == <<page, quiz, login, stateForm, students, members, scores, pager,
            visibility, asyncOp, wizard, keyNav, toasts, modal, grid, upload,
            setup, notice>>
NotWizard == <<page, quiz, login, stateForm, students, members, scores, pager,
               visibility, asyncOp, api, keyNav, toasts, modal, grid, upload,
               setup, notice>>
NotKeyNav == <<page, quiz, login, stateForm, students, members, scores, pager,
               visibility, asyncOp, api, wizard, toasts, modal, grid, upload,
               setup, notice>>
NotToasts == <<page, quiz, login, stateForm, students, members, scores, pager,
               visibility, asyncOp, api, wizard, keyNav, modal, grid, upload,
               setup, notice>>
NotModal == <<page, quiz, login, stateForm, students, members, scores, pager,
              visibility, asyncOp, api, wizard, keyNav, toasts, grid, upload,
              setup, notice>>
NotGrid == <<page, quiz, login, stateForm, students, members, scores, pager,
             visibility, asyncOp, api, wizard, keyNav, toasts, modal, upload,
             setup, notice>>
NotUpload == <<page, quiz, login, stateForm, students, members, scores, pager,
               visibility, asyncOp, api, wizard, keyNav, toasts, modal, grid,
               setup, notice>>
NotSetup == <<page, quiz, login, stateForm, students, members, scores, pager,
              visibility, asyncOp, api, wizard, keyNav, toasts, modal, grid,
              upload, notice>>
NotNotice == <<page, quiz, login, stateForm, students, members, scores, pager,
               visibility, asyncOp, api, wizard, keyNav, toasts, modal, grid,
               upload, setup>>

-----------------------------------------------------------------------------
(* Bounds of the model                                                     *)

\* longest password typed into the login form, over PwAlphabet
MaxLoginPwLen == 6
\* longest password typed into the form-state scenario
MaxStatePwLen == 9
\* most blanks typed before and after a quiz answer
MaxPad == 1
\* longest search term typed into a filter box, over TermAlphabet
MaxTermLen == 3
\* number of rows of the sortable table
ScoreRowCount == 3
\* most timers of the load button followed at a time
MaxPending == 2
\* most files selected or dropped on the upload page, over all batches
MaxFiles == 2
\* number of rows of the data grid
GridRowCount == 2
\* most toasts created on the toast page
MaxToasts == 2
\* number of .keyboard-item elements of the keyboard page
KeyItemCount == 3
\* how far beyond the list the selected index is followed
MaxOvershoot == 2

-----------------------------------------------------------------------------
(* Strings                                                                 *)

UpperChars == <<"A","B","C","D","E","F","G","H","I","J","K","L","M",
                "N","O","P","Q","R","S","T","U","V","W","X","Y","Z">>
LowerChars == <<"a","b","c","d","e","f","g","h","i","j","k","l","m",
                "n","o","p","q","r","s","t","u","v","w","x","y","z">>

\* String.prototype.toLowerCase, one character
LowerChar(c) ==
  IF \E i \in 1..Len(UpperChars) : UpperChars[i] = c
  THEN LowerChars[CHOOSE i \in 1..Len(UpperChars) : UpperChars[i] = c]
  ELSE c

\* String.prototype.toLowerCase
ToLowerCase(s) == [i \in 1..Len(s) |-> LowerChar(s[i])]

\* the white space String.prototype.trim removes
IsSpace(c) == c \in {" ", "\t", "\n"}

\* String.prototype.trim: drop the leading and the trailing white space
Trim(s) ==
  IF \A i \in 1..Len(s) : IsSpace(s[i])
  THEN << >>
  ELSE LET first == CHOOSE i \in 1..Len(s) :
                      /\ ~IsSpace(s[i])
                      /\ \A j \in 1..(i-1) : IsSpace(s[j])
           last  == CHOOSE i \in 1..Len(s) :
                      /\ ~IsSpace(s[i])
                      /\ \A j \in (i+1)..Len(s) : IsSpace(s[j])
       IN  SubSeq(s, first, last)

\* n copies of the character c
Repeat(c, n) == [i \in 1..n |-> c]

\* s with l blanks before it and r blanks after it
Pad(s, l, r) == Repeat(" ", l) \o s \o Repeat(" ", r)

\* every string over the alphabet A of length at most n
StringsUpTo(A, n) == UNION {[1..k -> A] : k \in 0..n}

-----------------------------------------------------------------------------
(* Quiz form (setupQuizForm, the definition in force: main.js 1105-1168)   *)

QualityAssurance ==
  <<"q","u","a","l","i","t","y"," ","a","s","s","u","r","a","n","c","e">>
QualityAssuranceCaps ==
  <<"Q","u","a","l","i","t","y"," ","A","s","s","u","r","a","n","c","e">>

\* answers typed into #q1, before padding
Q1Bases == { << >>, QualityAssurance, QualityAssuranceCaps, <<"q","a">> }

\* values of #q1 the user types
Q1Inputs == {Pad(b, l, r) : b \in Q1Bases, l \in 0..MaxPad, r \in 0..MaxPad}

\* the q2 checkboxes, in document order
Q2Order == <<"unit", "manual", "coffee", "integration">>
Q2Options == {Q2Order[i] : i \in 1..Len(Q2Order)}

\* the q3 radio buttons; "" stands for no radio button checked
Q3Options == {"early", "late"}

\* the elements of a sequence
Range(seq) == {seq[i] : i \in 1..Len(seq)}

\* document.querySelectorAll("input[name='q2']:checked") mapped to values:
\* the checked boxes in document order, whatever the order of the clicks
\* (clicks lists the checked boxes in the order they were checked)
Q2Values(clicks) == SelectSeq(Q2Order, LAMBDA o : o \in Range(clicks))

\* Array.prototype.includes
Includes(seq, v) == \E i \in 1..Len(seq) : seq[i] = v

\* "Your score: " + score + " / 3"
ScoreText(score) ==
  CASE score = 0 -> "Your score: 0 / 3"
    [] score = 1 -> "Your score: 1 / 3"
    [] score = 2 -> "Your score: 2 / 3"
    [] score = 3 -> "Your score: 3 / 3"

\* ScoreOf with the coffee test left out of the q2 rule
ScoreOf_NoCoffee(q1, q2Values, q3Value) ==
  LET hasUnit   == Includes(q2Values, "unit")
      hasManual == Includes(q2Values, "manual")
  IN  (IF q1 = QualityAssurance THEN 1 ELSE 0)
      + (IF hasUnit /\ hasManual THEN 1 ELSE 0)
      + (IF q3Value = "early" THEN 1 ELSE 0)

\* the points of the three scoring rules
ScoreOf(q1, q2Values, q3Value) ==
  LET hasUnit   == Includes(q2Values, "unit")
      hasManual == Includes(q2Values, "manual")
      hasCoffee == Includes(q2Values, "coffee")
  IN  (IF q1 = QualityAssurance THEN 1 ELSE 0)
      + (IF hasUnit /\ hasManual /\ ~hasCoffee THEN 1 ELSE 0)
      + (IF q3Value = "early" THEN 1 ELSE 0)

\* QuizResetResult resetting the text only
QuizResetResult_TextOnly(s) == [s EXCEPT !.resultText = ""]

\* the reset of the result element at the start of the submit listener
QuizResetResult(s) == [s EXCEPT !.resultText = "", !.resultColor = "orange"]

\* QuizSubmitHandler with the q2 check made before the q1 check
QuizSubmitHandler_Q2First(s) ==
  LET q1        == ToLowerCase(Trim(s.q1Value))
      q2Checked == Q2Values(s.q2Clicks)
      q3Checked == s.q3Checked
      r         == QuizResetResult(s)
  IN  IF Len(q2Checked) = 0
      THEN [r EXCEPT !.resultText =
                       "Please select at least one option for question 2."]
      ELSE IF q1 = << >>
      THEN [r EXCEPT !.resultText = "Please answer question 1.",
                     !.focus = "q1"]
      ELSE IF q3Checked = ""
      THEN [r EXCEPT !.resultText = "Please select an option for question 3."]
      ELSE LET score == ScoreOf(q1, q2Checked, q3Checked)
           IN  [r EXCEPT !.resultText = ScoreText(score),
                         !.resultColor = IF score = 3 THEN "green" ELSE "orange"]

\* one run of the submit listener of #quiz-form
QuizSubmitHandler(s) ==
  LET q1        == ToLowerCase(Trim(s.q1Value))
      q2Checked == Q2Values(s.q2Clicks)
      q3Checked == s.q3Checked
      r         == QuizResetResult(s)
  IN  IF q1 = << >>
      THEN [r EXCEPT !.resultText = "Please answer question 1.",
                     !.focus = "q1"]
      ELSE IF Len(q2Checked) = 0
      THEN [r EXCEPT !.resultText =
                       "Please select at least one option for question 2."]
      ELSE IF q3Checked = ""
      THEN [r EXCEPT !.resultText = "Please select an option for question 3."]
      ELSE LET score == ScoreOf(q1, q2Checked, q3Checked)
           IN  [r EXCEPT !.resultText = ScoreText(score),
                         !.resultColor = IF score = 3 THEN "green" ELSE "orange"]

\* a submit event: both DOMContentLoaded listeners have attached the listener
QuizSubmitEvent(s) == QuizSubmitHandler(QuizSubmitHandler(s))

QuizInit ==
  quiz = [q1Value |-> << >>, q2Clicks |-> << >>, q3Checked |-> "",
          resultText |-> "", resultColor |-> "", focus |-> "",
          prevText |-> "", last |-> "load"]

\* the user types into #q1
QuizTypeQ1 ==
  /\ page = "quiz"
  /\ \E v \in Q1Inputs :
       /\ v # quiz.q1Value
       /\ quiz' = [quiz EXCEPT !.q1Value = v, !.last = "input"]
  /\ UNCHANGED NotQuiz

\* one q1 answer of each kind: none, blanks only, the right one in lower
\* case, in capitals and with blanks around it, a wrong one
Q1Samples ==
  { << >>, <<" ">>, QualityAssurance, QualityAssuranceCaps,
    Pad(QualityAssurance, MaxPad, MaxPad), <<"q","a">> }

\* the user types one of the sample answers into #q1
QuizTypeQ1Sample ==
  /\ page = "quiz"
  /\ \E v \in Q1Samples :
       /\ v # quiz.q1Value
       /\ quiz' = [quiz EXCEPT !.q1Value = v, !.last = "input"]
  /\ UNCHANGED NotQuiz

\* the user clicks a q2 checkbox
QuizToggleQ2 ==
  /\ page = "quiz"
  /\ \E o \in Q2Options :
       quiz' = [quiz EXCEPT
                  !.q2Clicks = IF o \in Range(@)
                               THEN SelectSeq(@, LAMBDA x : x # o)
                               ELSE Append(@, o),
                  !.last = "input"]
  /\ UNCHANGED NotQuiz

\* the user clicks a q3 radio button
QuizSelectQ3 ==
  /\ page = "quiz"
  /\ \E o \in Q3Options :
       /\ o # quiz.q3Checked
       /\ quiz' = [quiz EXCEPT !.q3Checked = o, !.last = "input"]
  /\ UNCHANGED NotQuiz

\* the user submits #quiz-form; `prevText` keeps the text the result element
\* showed when the submit was made
QuizSubmit ==
  /\ page = "quiz"
  /\ quiz' = [QuizSubmitEvent(quiz) EXCEPT !.prevText = quiz.resultText,
                                           !.last = "submit"]
  /\ UNCHANGED NotQuiz

-----------------------------------------------------------------------------
(* Login form (setupLoginForm, the definition in force: main.js 1018-1069) *)

VALID_EMAIL ==
  <<"t","e","s","t","e","r","@","e","x","a","m","p","l","e",".","c","o","m">>
VALID_PASSWORD == <<"p","a","s","s","w","o","r","d","1","2","3">>

InvalidEmail ==
  <<"i","n","v","a","l","i","d","@","e","m","a","i","l",".","c","o","m">>
WrongPass == <<"w","r","o","n","g","p","a","s","s">>

\* the shortest password the login form accepts
LoginMinLength == 6
\* the shortest password the form-state scenario accepts
StateMinLength == 8

\* the characters of the short passwords typed into the login form
PwAlphabet == {" ", "a"}

\* values of #login-email and #state-email the user types
EmailInputs ==
  { << >>, <<" ">>, VALID_EMAIL, InvalidEmail, Pad(VALID_EMAIL, 1, 1),
    <<"t","e","s","t","e","r">>,
    <<"t","e","s","t","e","r","@","e","x","a","m","p","l","e">>,
    <<"a","@","b",".","c">> }

\* values of #login-password the user types
LoginPasswordInputs ==
  StringsUpTo(PwAlphabet, MaxLoginPwLen)
    \cup {Pad(VALID_PASSWORD, l, r) : l \in 0..1, r \in 0..1}
    \cup {WrongPass}

\* the value has an "@"
HasAt(v) == \E i \in 1..Len(v) : v[i] = "@"

\* the part of the value after its first "@"
DomainPart(v) ==
  LET at == CHOOSE i \in 1..Len(v) :
              v[i] = "@" /\ \A j \in 1..(i-1) : v[j] # "@"
  IN  SubSeq(v, at + 1, Len(v))

\* the email shape: local@domain, one "@", no white space, a dot inside the
\* domain
EmailShapeOK(v) ==
  /\ HasAt(v)
  /\ v[1] # "@"
  /\ \A i \in 1..Len(v) : ~IsSpace(v[i])
  /\ LET d == DomainPart(v)
     IN  /\ ~HasAt(d)
         /\ \E i \in 2..(Len(d) - 1) : d[i] = "."

\* the constraints the markup puts on #login-email: required, email shape
LoginEmailConstraintsOK(v) == v # << >> /\ EmailShapeOK(v)

\* the constraints the markup puts on #login-password: required, minimum
\* length
LoginPasswordConstraintsOK(v) == v # << >> /\ Len(v) >= LoginMinLength

\* emailInput.validity.valid: the markup's constraints and no custom error
LoginEmailValid(s) ==
  s.emailCustom = "" /\ LoginEmailConstraintsOK(s.emailValue)

\* passwordInput.validity.valid
LoginPasswordValid(s) ==
  s.passwordCustom = "" /\ LoginPasswordConstraintsOK(s.passwordValue)

\* loginForm.checkValidity()
LoginCheckValidity(s) == LoginEmailValid(s) /\ LoginPasswordValid(s)

\* LoginClearCustomValidity clearing nothing
LoginClearCustomValidity_None(s) == s

\* emailInput.setCustomValidity(""); passwordInput.setCustomValidity("")
LoginClearCustomValidity(s) ==
  [s EXCEPT !.emailCustom = "", !.passwordCustom = ""]

\* LoginCredentialsMatch with || in place of &&
LoginCredentialsMatch_Or(email, password) ==
  email = VALID_EMAIL \/ password = VALID_PASSWORD

\* the credential comparison
LoginCredentialsMatch(email, password) ==
  email = VALID_EMAIL /\ password = VALID_PASSWORD

\* one run of the submit listener of #login-form; `compared` records whether
\* the run evaluated the credential comparison
LoginSubmitHandler(s) ==
  LET email    == Trim(s.emailValue)
      password == Trim(s.passwordValue)
      c        == LoginClearCustomValidity(s)
  IN  IF ~LoginCheckValidity(c)
      THEN [c EXCEPT
              !.emailCustom =
                 IF email = << >> THEN "Email is required."
                 ELSE IF ~LoginEmailValid(c)
                 THEN "Please enter a valid email address."
                 ELSE @,
              !.passwordCustom =
                 IF password = << >> THEN "Password is required."
                 ELSE IF Len(password) < LoginMinLength
                 THEN "Password must be at least 6 characters."
                 ELSE @,
              !.message = "Please fix the highlighted errors.",
              !.color = "red",
              !.compared = FALSE]
      ELSE IF LoginCredentialsMatch(email, password)
      THEN [c EXCEPT !.message = "Login successful.", !.color = "green",
                     !.compared = TRUE]
      ELSE [c EXCEPT !.message = "Invalid credentials.", !.color = "red",
                     !.compared = TRUE]

\* a submit event: both DOMContentLoaded listeners have attached the listener
LoginSubmitEvent(s) == LoginSubmitHandler(LoginSubmitHandler(s))

LoginInit ==
  login = [emailValue |-> << >>, passwordValue |-> << >>,
           emailCustom |-> "", passwordCustom |-> "",
           message |-> "", color |-> "", submitDisabled |-> FALSE,
           compared |-> FALSE, prevMessage |-> "", last |-> "load"]

\* the user types into #login-email
LoginTypeEmail ==
  /\ page = "login"
  /\ \E v \in EmailInputs :
       /\ v # login.emailValue
       /\ login' = [login EXCEPT !.emailValue = v, !.last = "input"]
  /\ UNCHANGED NotLogin

\* the user types into #login-password
LoginTypePassword ==
  /\ page = "login"
  /\ \E v \in LoginPasswordInputs :
       /\ v # login.passwordValue
       /\ login' = [login EXCEPT !.passwordValue = v, !.last = "input"]
  /\ UNCHANGED NotLogin

\* one password of each kind the listener tells apart: none, blanks only,
\* one character short, long enough, long enough only with its blanks, the
\* valid one bare and padded, a wrong one
LoginPasswordSamples ==
  { << >>, Repeat(" ", LoginMinLength), Repeat("a", LoginMinLength - 1),
    Repeat("a", LoginMinLength),
    Pad(Repeat("a", LoginMinLength - 2), 1, 1),
    VALID_PASSWORD, Pad(VALID_PASSWORD, 1, 1), WrongPass }

\* the user types one of the sample passwords into #login-password
LoginTypePasswordSample ==
  /\ page = "login"
  /\ \E v \in LoginPasswordSamples :
       /\ v # login.passwordValue
       /\ login' = [login EXCEPT !.passwordValue = v, !.last = "input"]
  /\ UNCHANGED NotLogin

\* the user submits #login-form; `prevMessage` keeps the message shown when
\* the submit was made
LoginSubmit ==
  /\ page = "login"
  /\ login' = [LoginSubmitEvent(login) EXCEPT !.prevMessage = login.message,
                                             !.last = "submit"]
  /\ UNCHANGED NotLogin

-----------------------------------------------------------------------------
(* Form-state scenario (setupFormStateScenario, main.js 265-315)           *)

\* values of #state-password the user types
StatePasswordInputs == {Repeat("a", n) : n \in 0..MaxStatePwLen}

\* validity.valid of #state-email: the email shape; an empty value breaks no
\* shape constraint
StateEmailValid(v) == v = << >> \/ EmailShapeOK(v)

\* CheckFormValidity with > in place of >= in the password test
CheckFormValidity_OffByOne(s) ==
  LET emailValid    == StateEmailValid(s.emailValue) /\ Len(s.emailValue) > 0
      passwordValid == Len(s.passwordValue) > StateMinLength
      agreeChecked  == s.agreeChecked
  IN  [s EXCEPT !.submitDisabled =
                   ~(emailValid /\ passwordValid /\ agreeChecked)]

\* CheckFormValidity without the terms checkbox
CheckFormValidity_NoTerms(s) ==
  LET emailValid    == StateEmailValid(s.emailValue) /\ Len(s.emailValue) > 0
      passwordValid == Len(s.passwordValue) >= StateMinLength
  IN  [s EXCEPT !.submitDisabled = ~(emailValid /\ passwordValid)]

\* CheckFormValidity without the validity test of the email
CheckFormValidity_NoEmailShape(s) ==
  LET emailValid    == Len(s.emailValue) > 0
      passwordValid == Len(s.passwordValue) >= StateMinLength
      agreeChecked  == s.agreeChecked
  IN  [s EXCEPT !.submitDisabled =
                   ~(emailValid /\ passwordValid /\ agreeChecked)]

\* checkFormValidity()
CheckFormValidity(s) ==
  LET emailValid    == StateEmailValid(s.emailValue) /\ Len(s.emailValue) > 0
      passwordValid == Len(s.passwordValue) >= StateMinLength
      agreeChecked  == s.agreeChecked
  IN  [s EXCEPT !.submitDisabled =
                   ~(emailValid /\ passwordValid /\ agreeChecked)]

\* the input listener of #state-email
StateEmailInputHandler(s) ==
  CheckFormValidity(
    IF ~StateEmailValid(s.emailValue) /\ Len(s.emailValue) > 0
    THEN [s EXCEPT !.emailErrorText = "Please enter a valid email address.",
                   !.emailErrorDisplay = "block"]
    ELSE [s EXCEPT !.emailErrorDisplay = "none"])

\* the input listener of #state-password
StatePasswordInputHandler(s) ==
  CheckFormValidity(
    IF Len(s.passwordValue) > 0 /\ Len(s.passwordValue) < StateMinLength
    THEN [s EXCEPT !.passwordErrorText =
                      "Password must be at least 8 characters.",
                   !.passwordErrorDisplay = "block"]
    ELSE [s EXCEPT !.passwordErrorDisplay = "none"])

\* the text the submit listener shows (the source's text starts with a check
\* mark, U+2713, and a blank)
SubmittedText == "Form submitted successfully!"

\* the submit listener of #state-form; `submitted` records the field values
\* the submit was made with
StateSubmitHandler(s) ==
  [s EXCEPT !.formMessage = SubmittedText,
            !.formColor = "green",
            !.submitted = [made |-> TRUE, emailValue |-> s.emailValue,
                           passwordValue |-> s.passwordValue,
                           agreeChecked |-> s.agreeChecked]]

StateFormInit ==
  stateForm = [emailValue |-> << >>, passwordValue |-> << >>,
               agreeChecked |-> FALSE, submitDisabled |-> TRUE,
               emailErrorText |-> "", emailErrorDisplay |-> "none",
               passwordErrorText |-> "", passwordErrorDisplay |-> "none",
               formMessage |-> "", formColor |-> "",
               submitted |-> [made |-> FALSE, emailValue |-> << >>,
                              passwordValue |-> << >>,
                              agreeChecked |-> FALSE],
               last |-> "load"]

\* the user types into #state-email
StateTypeEmail ==
  /\ page = "state-form"
  /\ \E v \in EmailInputs :
       /\ v # stateForm.emailValue
       /\ stateForm' = [StateEmailInputHandler(
                          [stateForm EXCEPT !.emailValue = v])
                        EXCEPT !.last = "input"]
  /\ UNCHANGED NotStateForm

\* the user types into #state-password
StateTypePassword ==
  /\ page = "state-form"
  /\ \E v \in StatePasswordInputs :
       /\ v # stateForm.passwordValue
       /\ stateForm' = [StatePasswordInputHandler(
                          [stateForm EXCEPT !.passwordValue = v])
                        EXCEPT !.last = "input"]
  /\ UNCHANGED NotStateForm

\* the user clicks #agree-terms
StateToggleAgree ==
  /\ page = "state-form"
  /\ stateForm' = [CheckFormValidity(
                     [stateForm EXCEPT !.agreeChecked = ~@])
                   EXCEPT !.last = "input"]
  /\ UNCHANGED NotStateForm

\* the user submits #state-form: a disabled submit button submits nothing
StateSubmit ==
  /\ page = "state-form"
  /\ ~stateForm.submitDisabled
  /\ stateForm' = [StateSubmitHandler(stateForm) EXCEPT !.last = "submit"]
  /\ UNCHANGED NotStateForm

-----------------------------------------------------------------------------
(* Student filter (setupStudentFilter, the definition in force: main.js    *)
(* 1073-1101)                                                              *)

\* String.prototype.includes: t occurs in s
Contains(s, t) ==
  \E i \in 0..(Len(s) - Len(t)) : SubSeq(s, i + 1, i + Len(t)) = t

\* the characters of the search terms typed into the filter boxes
TermAlphabet == {"a", "n", "B", "e"}

\* values of #search-input and #member-search the user types
TermInputs == StringsUpTo(TermAlphabet, MaxTermLen)

\* the first cells of the rows of #students-table, in document order
StudentTable ==
  << <<"A","n","a">>, <<"B","e","n">>, <<"N","a","n">>, <<"B","e","a">> >>

\* visibleCount + " student(s) found."
StudentCountText(n) == ToString(n) \o " student(s) found."

\* StudentInputHandler matching the term as typed, not lowercased
StudentInputHandler_TermAsTyped(s) ==
  LET term         == s.term
      Match(i)     == Contains(ToLowerCase(s.rows[i].name), term)
      visibleCount == Cardinality({i \in 1..Len(s.rows) : Match(i)})
  IN  [s EXCEPT
         !.rows = [i \in 1..Len(s.rows) |->
                     [s.rows[i] EXCEPT
                        !.display = IF Match(i) THEN "" ELSE "none"]],
         !.message = IF term # << >> /\ visibleCount = 0
                     THEN "No students found."
                     ELSE IF term = << >> THEN ""
                     ELSE StudentCountText(visibleCount)]

\* StudentInputHandler taking the rows that do not match out of the table
StudentInputHandler_DropHidden(s) ==
  LET term         == ToLowerCase(s.term)
      Match(r)     == Contains(ToLowerCase(r.name), term)
      kept         == SelectSeq(s.rows, Match)
  IN  [s EXCEPT
         !.rows = [i \in 1..Len(kept) |-> [kept[i] EXCEPT !.display = ""]],
         !.message = IF term # << >> /\ Len(kept) = 0
                     THEN "No students found."
                     ELSE IF term = << >> THEN ""
                     ELSE StudentCountText(Len(kept))]

\* StudentInputHandler counting the rows shown when the run starts
StudentInputHandler_CountBefore(s) ==
  LET term         == ToLowerCase(s.term)
      Match(i)     == Contains(ToLowerCase(s.rows[i].name), term)
      visibleCount == Cardinality({i \in 1..Len(s.rows) :
                                     s.rows[i].display # "none"})
  IN  [s EXCEPT
         !.rows = [i \in 1..Len(s.rows) |->
                     [s.rows[i] EXCEPT
                        !.display = IF Match(i) THEN "" ELSE "none"]],
         !.message = IF term # << >> /\ visibleCount = 0
                     THEN "No students found."
                     ELSE IF term = << >> THEN ""
                     ELSE StudentCountText(visibleCount)]

\* one run of the input listener of #search-input
StudentInputHandler(s) ==
  LET term         == ToLowerCase(s.term)
      Match(i)     == Contains(ToLowerCase(s.rows[i].name), term)
      visibleCount == Cardinality({i \in 1..Len(s.rows) : Match(i)})
  IN  [s EXCEPT
         !.rows = [i \in 1..Len(s.rows) |->
                     [s.rows[i] EXCEPT
                        !.display = IF Match(i) THEN "" ELSE "none"]],
         !.message = IF term # << >> /\ visibleCount = 0
                     THEN "No students found."
                     ELSE IF term = << >> THEN ""
                     ELSE StudentCountText(visibleCount)]

\* an input event: both DOMContentLoaded listeners have attached the listener
StudentInputEvent(s) == StudentInputHandler(StudentInputHandler(s))

StudentsInit ==
  students = [term |-> << >>,
              rows |-> [i \in 1..Len(StudentTable) |->
                          [name |-> StudentTable[i], display |-> ""]],
              message |-> "", last |-> "load"]

\* the user types into #search-input
StudentType ==
  /\ page = "students"
  /\ \E v \in TermInputs :
       students' = [StudentInputEvent([students EXCEPT !.term = v])
                    EXCEPT !.last = "input"]
  /\ UNCHANGED NotStudents

-----------------------------------------------------------------------------
(* Member filter (setupDynamicListScenario, main.js 364-409)               *)

\* the data-name and data-role attributes of the rows of #members-table;
\* one name is written with its capital
MemberTable ==
  << [name |-> <<"a","n","a">>, role |-> <<"Q","A">>],
     [name |-> <<"B","e","n">>, role |-> <<"D","e","v">>],
     [name |-> <<"n","a","n">>, role |-> <<"Q","A">>],
     [name |-> <<"b","e","a">>, role |-> <<"D","e","v">>] >>

\* the option values of #role-filter; the empty value selects every role
RoleOptions == { << >>, <<"q","a">>, <<"d","e","v">>, <<"o","p","s">> }

\* visibleCount + " member(s) found"
MemberCountText(n) == ToString(n) \o " member(s) found"

\* applyFilters counting the matching rows that were shown before the call
MemberApplyFilters_CountShown(s) ==
  LET searchTerm   == ToLowerCase(s.term)
      selectedRole == s.role
      IsVisible(i) ==
        /\ Contains(s.rows[i].name, searchTerm)
        /\ (selectedRole = << >> \/ ToLowerCase(s.rows[i].role) = selectedRole)
      visibleCount ==
        Cardinality({i \in 1..Len(s.rows) :
                       IsVisible(i) /\ s.rows[i].display = ""})
      noMatch == visibleCount = 0 /\ (searchTerm # << >> \/ selectedRole # << >>)
  IN  [s EXCEPT
         !.rows = [i \in 1..Len(s.rows) |->
                     [s.rows[i] EXCEPT
                        !.display = IF IsVisible(i) THEN "" ELSE "none"]],
         !.message = IF noMatch
                     THEN "No members found matching your filters."
                     ELSE IF visibleCount > 0
                     THEN MemberCountText(visibleCount) ELSE "",
         !.color = IF noMatch THEN "var(--text-muted)" ELSE @]

\* applyFilters()
MemberApplyFilters(s) ==
  LET searchTerm   == ToLowerCase(s.term)
      selectedRole == s.role
      IsVisible(i) ==
        /\ Contains(s.rows[i].name, searchTerm)
        /\ (selectedRole = << >> \/ ToLowerCase(s.rows[i].role) = selectedRole)
      visibleCount == Cardinality({i \in 1..Len(s.rows) : IsVisible(i)})
      noMatch == visibleCount = 0 /\ (searchTerm # << >> \/ selectedRole # << >>)
  IN  [s EXCEPT
         !.rows = [i \in 1..Len(s.rows) |->
                     [s.rows[i] EXCEPT
                        !.display = IF IsVisible(i) THEN "" ELSE "none"]],
         !.message = IF noMatch
                     THEN "No members found matching your filters."
                     ELSE IF visibleCount > 0
                     THEN MemberCountText(visibleCount) ELSE "",
         !.color = IF noMatch THEN "var(--text-muted)" ELSE @]

\* the click listener of #reset-filters
MemberResetHandler(s) ==
  MemberApplyFilters([s EXCEPT !.term = << >>, !.role = << >>,
                               !.message = ""])

MembersInit ==
  members = [term |-> << >>, role |-> << >>,
             rows |-> [i \in 1..Len(MemberTable) |->
                         [name |-> MemberTable[i].name,
                          role |-> MemberTable[i].role, display |-> ""]],
             message |-> "", color |-> "", last |-> "load"]

\* the user types into #member-search
MemberType ==
  /\ page = "members"
  /\ \E v \in TermInputs :
       members' = [MemberApplyFilters([members EXCEPT !.term = v])
                   EXCEPT !.last = "input"]
  /\ UNCHANGED NotMembers

\* the user selects an option of #role-filter
MemberSelectRole ==
  /\ page = "members"
  /\ \E v \in RoleOptions :
       /\ v # members.role
       /\ members' = [MemberApplyFilters([members EXCEPT !.role = v])
                      EXCEPT !.last = "change"]
  /\ UNCHANGED NotMembers

\* the user clicks #reset-filters
MemberReset ==
  /\ page = "members"
  /\ members' = [MemberResetHandler(members) EXCEPT !.last = "reset"]
  /\ UNCHANGED NotMembers

-----------------------------------------------------------------------------
(* Sortable table (setupSortableTableScenario, main.js 439-494)            *)

\* the data-sort attributes of the th.sortable headers, in document order;
\* the cell of a header has the header's index
SortFields == <<"name", "score">>

\* the cell texts of the name column and of the score column
NameCells == { <<"a","l">>, <<"B","o">> }
ScoreCells == { <<"9">>, <<"1","0">>, <<"n","/","a">> }

\* the rows a scores table can hold: each row keeps its identity (its place
\* in the loaded document) and its two cells
ScoreTables ==
  { [i \in 1..ScoreRowCount |-> [id |-> i, cells |-> <<t[i][1], t[i][2]>>]] :
      t \in [1..ScoreRowCount -> NameCells \X ScoreCells] }

Digits == <<"0","1","2","3","4","5","6","7","8","9">>
IsDigit(c) == \E i \in 1..Len(Digits) : Digits[i] = c
DigitValue(c) == (CHOOSE i \in 1..Len(Digits) : Digits[i] = c) - 1

\* the value of a string of digits
RECURSIVE DigitsValue(_)
DigitsValue(s) ==
  IF s = << >> THEN 0
  ELSE 10 * DigitsValue(SubSeq(s, 1, Len(s) - 1)) + DigitValue(s[Len(s)])

\* the longest prefix of digits (the cell texts of the model carry no sign,
\* fraction or exponent)
DigitPrefix(s) ==
  LET n == CHOOSE k \in 0..Len(s) :
             /\ \A i \in 1..k : IsDigit(s[i])
             /\ (k < Len(s) => ~IsDigit(s[k + 1]))
  IN  SubSeq(s, 1, n)

\* !isNaN(parseFloat(s))
ParsesAsNumber(s) == DigitPrefix(s) # << >>

\* parseFloat(s), for a text that parses
ParseFloat(s) == DigitsValue(DigitPrefix(s))

\* the collation order of the characters: blanks and punctuation, digits,
\* letters; upper and lower case of a letter have the same place
CollationOrder ==
  <<" ", "/", "%">> \o Digits \o LowerChars

CollationRanks ==
  [c \in Range(CollationOrder) \cup Range(UpperChars) |->
     CHOOSE i \in 1..Len(CollationOrder) : CollationOrder[i] = LowerChar(c)]

CollationRank(c) == CollationRanks[c]

\* the sign of an integer
Sign(n) == IF n < 0 THEN -1 ELSE IF n > 0 THEN 1 ELSE 0

\* String.prototype.localeCompare: by collation rank, the shorter of two
\* texts first when one is a prefix of the other; texts equal but for the
\* case of their letters are ordered by the first such letter, lower case
\* first
LocaleCompare(a, b) ==
  LET m == IF Len(a) < Len(b) THEN Len(a) ELSE Len(b)
      DiffRank(i) == CollationRank(a[i]) # CollationRank(b[i])
      DiffChar(i) == a[i] # b[i]
  IN  IF \E i \in 1..m : DiffRank(i)
      THEN LET i == CHOOSE k \in 1..m :
                      DiffRank(k) /\ \A j \in 1..(k-1) : ~DiffRank(j)
           IN  Sign(CollationRank(a[i]) - CollationRank(b[i]))
      ELSE IF Len(a) # Len(b) THEN Sign(Len(a) - Len(b))
      ELSE IF \E i \in 1..m : DiffChar(i)
      THEN LET i == CHOOSE k \in 1..m :
                      DiffChar(k) /\ \A j \in 1..(k-1) : ~DiffChar(j)
           IN  IF a[i] = LowerChar(a[i]) THEN -1 ELSE 1
      ELSE 0

\* the comparator of sortTable always comparing the texts
SortCompare_TextOnly(rowA, rowB, headerIndex, direction) ==
  LET cellA == Trim(rowA.cells[headerIndex])
      cellB == Trim(rowB.cells[headerIndex])
      comparison == LocaleCompare(cellA, cellB)
  IN  IF direction = "asc" THEN comparison ELSE -comparison

\* the comparator of sortTable
SortCompare(rowA, rowB, headerIndex, direction) ==
  LET cellA == Trim(rowA.cells[headerIndex])
      cellB == Trim(rowB.cells[headerIndex])
      comparison ==
        IF ParsesAsNumber(cellA) /\ ParsesAsNumber(cellB)
        THEN ParseFloat(cellA) - ParseFloat(cellB)
        ELSE LocaleCompare(cellA, cellB)
  IN  IF direction = "asc" THEN comparison ELSE -comparison

\* the place of x in front of the elements it compares equal to
RECURSIVE InsertPlace_BeforeTies(_, _, _, _, _)
InsertPlace_BeforeTies(sorted, x, headerIndex, direction, j) ==
  IF j > 0 /\ SortCompare(sorted[j], x, headerIndex, direction) >= 0
  THEN InsertPlace_BeforeTies(sorted, x, headerIndex, direction, j - 1)
  ELSE j

\* the place of x in the sorted sequence: behind the last element, from the
\* back, that does not compare greater than it
RECURSIVE InsertPlace(_, _, _, _, _)
InsertPlace(sorted, x, headerIndex, direction, j) ==
  IF j > 0 /\ SortCompare(sorted[j], x, headerIndex, direction) > 0
  THEN InsertPlace(sorted, x, headerIndex, direction, j - 1)
  ELSE j

InsertSorted(sorted, x, headerIndex, direction) ==
  LET k == InsertPlace(sorted, x, headerIndex, direction, Len(sorted))
  IN  SubSeq(sorted, 1, k) \o <<x>> \o SubSeq(sorted, k + 1, Len(sorted))

\* Array.prototype.sort with the comparator of sortTable: a stable sort
RECURSIVE StableSort(_, _, _)
StableSort(rows, headerIndex, direction) ==
  IF rows = << >> THEN << >>
  ELSE InsertSorted(
         StableSort(SubSeq(rows, 1, Len(rows) - 1), headerIndex, direction),
         rows[Len(rows)], headerIndex, direction)

\* a sequence back to front
Reverse(seq) == [i \in 1..Len(seq) |-> seq[Len(seq) + 1 - i]]

\* the index of the header of a field among the th.sortable headers
HeaderIndex(field) == CHOOSE i \in 1..Len(SortFields) : SortFields[i] = field

\* sortTable sorting ascending and turning the rows round for descending
SortTable_ReverseForDesc(rows, field, direction) ==
  IF direction = "asc"
  THEN StableSort(rows, HeaderIndex(field), "asc")
  ELSE Reverse(StableSort(rows, HeaderIndex(field), "asc"))

\* sortTable(table, field, direction): the rows of tbody, sorted and appended
\* again in the sorted order
SortTable(rows, field, direction) ==
  StableSort(rows, HeaderIndex(field), direction)

\* the header click listener's update of currentSort, never going back to
\* ascending
NextSort_KeepFlipping(currentSort, sortField) ==
  [field |-> sortField,
   direction |-> IF currentSort.direction = "asc" THEN "desc" ELSE "asc"]

\* the header click listener's update of currentSort
NextSort(currentSort, sortField) ==
  IF currentSort.field = sortField
  THEN [currentSort EXCEPT
          !.direction = IF @ = "asc" THEN "desc" ELSE "asc"]
  ELSE [field |-> sortField, direction |-> "asc"]

\* the texts of the sort indicators (the source shows the arrows U+2191 and
\* U+2193)
UpArrow == "up"
DownArrow == "down"

\* the click listener of a sortable header
HeaderClickHandler(s, sortField) ==
  LET next == NextSort(s.currentSort, sortField)
  IN  [s EXCEPT
         !.currentSort = next,
         !.indicators = [h \in Range(SortFields) |->
                           IF h = sortField
                           THEN IF next.direction = "asc"
                                THEN UpArrow ELSE DownArrow
                           ELSE ""],
         !.rows = SortTable(s.rows, sortField, next.direction)]

\* the scores table as loaded; `clicks` keeps the fields of the last three
\* clicks, `before` the rows before the last click and `before2` the rows
\* before the last two clicks
ScoresInit ==
  IF page = "sortable"
  THEN \E t \in ScoreTables :
         scores = [rows |-> t,
                   currentSort |-> [field |-> "", direction |-> "asc"],
                   indicators |-> [h \in Range(SortFields) |-> ""],
                   clicks |-> << >>, directionBefore |-> "asc",
                   before |-> t, before2 |-> t, last |-> "load"]
  ELSE scores = [last |-> "absent"]

\* the last n elements of a sequence
LastN(seq, n) == IF Len(seq) <= n THEN seq ELSE SubSeq(seq, Len(seq) - n + 1, Len(seq))

\* the user clicks a sortable header
HeaderClick ==
  /\ page = "sortable"
  /\ \E f \in Range(SortFields) :
       scores' = [HeaderClickHandler(scores, f) EXCEPT
                    !.clicks = LastN(Append(scores.clicks, f), 3),
                    !.directionBefore = scores.currentSort.direction,
                    !.before = scores.rows,
                    !.before2 = scores.before,
                    !.last = "click"]
  /\ UNCHANGED NotScores

-----------------------------------------------------------------------------
(* Pagination (setupPaginationScenario, main.js 501-583)                   *)

itemsPerPage == 5

\* the ids of allData, in the order of the array
allData == [i \in 1..15 |-> i]

\* Math.ceil(allData.length / itemsPerPage)
totalPages == (Len(allData) + itemsPerPage - 1) \div itemsPerPage

\* Array.prototype.slice(startIdx, endIdx), for 0 <= startIdx <= endIdx
Slice(seq, startIdx, endIdx) ==
  SubSeq(seq, startIdx + 1, IF endIdx < Len(seq) THEN endIdx ELSE Len(seq))

\* `Page ${currentPage} of ${totalPages}`
PageInfoText(currentPage, total) ==
  "Page " \o ToString(currentPage) \o " of " \o ToString(total)

\* renderPage taking the page number for the index of the first row
RenderPage_SliceFromPage(s) ==
  IF ~s.has.tbody THEN s
  ELSE LET startIdx == s.currentPage
           endIdx == startIdx + itemsPerPage
       IN  [s EXCEPT
              !.body = Slice(allData, startIdx, endIdx),
              !.info = IF s.has.info
                       THEN PageInfoText(s.currentPage, totalPages) ELSE @,
              !.prevDisabled = IF s.has.prev THEN s.currentPage = 1 ELSE @,
              !.nextDisabled = IF s.has.next
                               THEN s.currentPage = totalPages ELSE @]

\* renderPage()
RenderPage(s) ==
  IF ~s.has.tbody THEN s
  ELSE LET startIdx == (s.currentPage - 1) * itemsPerPage
           endIdx == startIdx + itemsPerPage
       IN  [s EXCEPT
              !.body = Slice(allData, startIdx, endIdx),
              !.info = IF s.has.info
                       THEN PageInfoText(s.currentPage, totalPages) ELSE @,
              !.prevDisabled = IF s.has.prev THEN s.currentPage = 1 ELSE @,
              !.nextDisabled = IF s.has.next
                               THEN s.currentPage = totalPages ELSE @]

\* the click listener of #prev-page
PrevPageHandler(s) ==
  IF s.currentPage > 1
  THEN RenderPage([s EXCEPT !.currentPage = @ - 1])
  ELSE s

\* the click listener of #next-page going on from the last page
NextPageHandler_PastLast(s) ==
  IF s.currentPage <= totalPages
  THEN RenderPage([s EXCEPT !.currentPage = @ + 1])
  ELSE s

\* the click listener of #next-page
NextPageHandler(s) ==
  IF s.currentPage < totalPages
  THEN RenderPage([s EXCEPT !.currentPage = @ + 1])
  ELSE s

\* what the page and the closure hold, without the history
PagerView(s) ==
  [currentPage |-> s.currentPage, body |-> s.body, info |-> s.info,
   prevDisabled |-> s.prevDisabled, nextDisabled |-> s.nextDisabled]

\* the elements a page can have: #pagination-body, #pagination-info,
\* #prev-page, #next-page
PagerElements == [tbody : BOOLEAN, info : BOOLEAN, prev : BOOLEAN, next : BOOLEAN]

\* the page after setupPaginationScenario, the initial renderPage() included;
\* an element the script has not written is empty and enabled
PagerInit ==
  IF page = "pagination"
  THEN \E h \in PagerElements :
         LET loaded == RenderPage(
                         [has |-> h, currentPage |-> 1, body |-> << >>,
                          info |-> "", prevDisabled |-> FALSE,
                          nextDisabled |-> FALSE, last |-> "load",
                          before |-> << >>])
         IN  pager = [loaded EXCEPT !.before = PagerView(loaded)]
  ELSE pager = [last |-> "absent"]

\* a click event reaches #prev-page, enabled or not
PrevPage ==
  /\ page = "pagination"
  /\ pager.has.prev
  /\ pager' = [PrevPageHandler(pager) EXCEPT
                 !.before = PagerView(pager), !.last = "prev"]
  /\ UNCHANGED NotPager

\* a click event reaches #next-page, enabled or not
NextPage ==
  /\ page = "pagination"
  /\ pager.has.next
  /\ pager' = [NextPageHandler(pager) EXCEPT
                 !.before = PagerView(pager), !.last = "next"]
  /\ UNCHANGED NotPager

-----------------------------------------------------------------------------
(* Timers: setupVisibilityScenario (main.js 241-255),                      *)
(* setupAsyncButtonScenario (main.js 416-432), setupApiSimulation          *)
(* (main.js 849-903)                                                       *)

\* the delays of the three timers, in milliseconds
LoadDelay == 2000
AsyncDelay == 3000
ApiDelay == 1500

\* the amounts of time that pass in one step, in milliseconds
TickSteps == {250, 500, 1000}

\* the text written by new Date().toLocaleTimeString()
TimeText == "time"

\* the timers of a control as the times left until they fire, in the order
\* they were started; setTimeout(f, delay)
SetTimeout(pending, delay) == Append(pending, delay)

\* d milliseconds pass: no timer is left behind its time
CanTick(pending, d) ==
  /\ pending # << >>
  /\ \A i \in 1..Len(pending) : pending[i] >= d

Elapse(pending, d) == [i \in 1..Len(pending) |-> pending[i] - d]

\* the timer that fires next has run out
Due(pending) == pending # << >> /\ pending[1] = 0

\* the click listener of #load-button
LoadClickHandler(s) ==
  [s EXCEPT !.spinner = "block", !.result = "none",
            !.pending = SetTimeout(@, LoadDelay)]

\* the timer callback of the load button
LoadTimerCallback(s) ==
  [s EXCEPT !.spinner = "none", !.result = "block",
            !.timestamp = TimeText, !.pending = Tail(@)]

\* the visibility page as loaded: spinner and result hidden, the button
\* enabled
VisibilityInit ==
  visibility = [disabled |-> FALSE, spinner |-> "none", result |-> "none",
                timestamp |-> "", pending |-> << >>, last |-> "load"]

\* the user clicks #load-button
LoadClick ==
  /\ page = "visibility"
  /\ ~visibility.disabled
  /\ Len(visibility.pending) < MaxPending
  /\ visibility' = [LoadClickHandler(visibility) EXCEPT !.last = "click"]
  /\ UNCHANGED NotVisibility

\* time passes on the visibility page
LoadTick ==
  /\ page = "visibility"
  /\ \E d \in TickSteps :
       /\ CanTick(visibility.pending, d)
       /\ visibility' = [visibility EXCEPT !.pending = Elapse(@, d),
                                           !.last = "tick"]
  /\ UNCHANGED NotVisibility

\* a timer of the load button fires
LoadTimerFires ==
  /\ page = "visibility"
  /\ Due(visibility.pending)
  /\ visibility' = [LoadTimerCallback(visibility) EXCEPT !.last = "timer"]
  /\ UNCHANGED NotVisibility

\* the click listener of #async-submit
AsyncClickHandler(s) ==
  [s EXCEPT !.disabled = TRUE, !.loading = "block", !.success = "none",
            !.pending = SetTimeout(@, AsyncDelay)]

\* the timer callback of the async button
AsyncTimerCallback(s) ==
  [s EXCEPT !.loading = "none", !.success = "block",
            !.timestamp = TimeText, !.disabled = FALSE,
            !.pending = Tail(@)]

\* the async page as loaded
AsyncInit ==
  asyncOp = [disabled |-> FALSE, loading |-> "none", success |-> "none",
             timestamp |-> "", pending |-> << >>, last |-> "load"]

\* the user clicks #async-submit; a disabled button takes no click
AsyncClick ==
  /\ page = "async"
  /\ ~asyncOp.disabled
  /\ Len(asyncOp.pending) < MaxPending
  /\ asyncOp' = [AsyncClickHandler(asyncOp) EXCEPT !.last = "click"]
  /\ UNCHANGED NotAsyncOp

\* time passes on the async page
AsyncTick ==
  /\ page = "async"
  /\ \E d \in TickSteps :
       /\ CanTick(asyncOp.pending, d)
       /\ asyncOp' = [asyncOp EXCEPT !.pending = Elapse(@, d),
                                     !.last = "tick"]
  /\ UNCHANGED NotAsyncOp

\* the timer of the async button fires
AsyncTimerFires ==
  /\ page = "async"
  /\ Due(asyncOp.pending)
  /\ asyncOp' = [AsyncTimerCallback(asyncOp) EXCEPT !.last = "timer"]
  /\ UNCHANGED NotAsyncOp

\* the ids of mockData, in the order of the array
mockData == <<101, 102, 103, 104, 105>>

\* the click listener of #load-data-btn leaving the error message shown
ApiClickHandler_KeepsError(s) ==
  [s EXCEPT !.disabled = TRUE, !.text = "Loading...",
            !.pending = SetTimeout(@, ApiDelay)]

\* the click listener of #load-data-btn, up to its await
ApiClickHandler(s) ==
  [s EXCEPT !.disabled = TRUE, !.text = "Loading...",
            !.errorDisplay = "none",
            !.pending = SetTimeout(@, ApiDelay)]

\* the click listener of #load-data-btn after its await, up to the alert:
\* the table filled, or (failed: Math.random() < 0.2) the error shown
ApiResume(s, failed) ==
  IF failed
  THEN [s EXCEPT !.errorDisplay = "block",
                 !.errorText = "Network error occurred",
                 !.notice = "Network error occurred",
                 !.alert = TRUE, !.pending = Tail(@)]
  ELSE [s EXCEPT !.rows = mockData,
                 !.notice = "Data loaded successfully!",
                 !.alert = TRUE, !.pending = Tail(@)]

\* the finally block of the click listener
ApiFinally(s) ==
  [s EXCEPT !.disabled = FALSE, !.text = "Load Data", !.alert = FALSE]

\* the api page as loaded; `rowsAtClick` keeps the table body as it was at
\* the last click and `outcome` how the last load ended
ApiInit ==
  api = [disabled |-> FALSE, text |-> "Load Data", errorDisplay |-> "none",
         errorText |-> "", rows |-> << >>, notice |-> "", alert |-> FALSE,
         pending |-> << >>, rowsAtClick |-> << >>, outcome |-> "",
         last |-> "load"]

\* the user clicks #load-data-btn; a disabled button takes no click, and
\* nothing is clicked while an alert is open
ApiClick ==
  /\ page = "api"
  /\ ~api.disabled /\ ~api.alert
  /\ Len(api.pending) < MaxPending
  /\ api' = [ApiClickHandler(api) EXCEPT
               !.rowsAtClick = api.rows, !.outcome = "", !.last = "click"]
  /\ UNCHANGED NotApi

\* time passes on the api page
ApiTick ==
  /\ page = "api"
  /\ ~api.alert
  /\ \E d \in TickSteps :
       /\ CanTick(api.pending, d)
       /\ api' = [api EXCEPT !.pending = Elapse(@, d), !.last = "tick"]
  /\ UNCHANGED NotApi

\* the timer of the load-data button fires and the listener goes on, to
\* success or to failure
ApiTimerFires ==
  /\ page = "api"
  /\ ~api.alert
  /\ Due(api.pending)
  /\ \E failed \in BOOLEAN :
       api' = [ApiResume(api, failed) EXCEPT
                 !.outcome = IF failed THEN "failed" ELSE "loaded",
                 !.last = "timer"]
  /\ UNCHANGED NotApi

\* the user closes the alert and the listener ends
ApiAlertClosed ==
  /\ page = "api"
  /\ api.alert
  /\ api' = [ApiFinally(api) EXCEPT !.last = "closed"]
  /\ UNCHANGED NotApi

-----------------------------------------------------------------------------
(* Page initialisation: the two DOMContentLoaded listeners (main.js 13-19  *)
(* and 1010-1014) and setupPracticeScenarios (main.js 219-234)             *)

\* the calls of setupPracticeScenarios, in order
PracticeSetups ==
  <<"setupVisibilityScenario", "setupFormStateScenario",
    "setupModalScenario", "setupDynamicListScenario",
    "setupAsyncButtonScenario", "setupSortableTableScenario",
    "setupPaginationScenario", "setupTabsAndAccordion",
    "setupToastNotifications", "setupWizardForm", "setupFileUpload",
    "setupApiSimulation", "setupKeyboardNavigation",
    "setupDataGridActions">>

\* the calls of the first and of the second DOMContentLoaded listener
ListenerCalls ==
  << <<"setupLoginForm", "setupStudentFilter", "setupQuizForm">>
       \o PracticeSetups,
     <<"setupLoginForm", "setupStudentFilter", "setupQuizForm">> >>

Setups == Range(ListenerCalls[1])

\* the elements a setup looks up and returns without: `if (!x) return`
SetupGuard(f) ==
  CASE f = "setupLoginForm" -> {"login-form"}
    [] f = "setupStudentFilter" -> {"search-input"}
    [] f = "setupQuizForm" -> {"quiz-form"}
    [] f = "setupVisibilityScenario" -> {"load-button"}
    [] f = "setupFormStateScenario" -> {"state-form"}
    [] f = "setupModalScenario" -> {"open-modal"}
    [] f = "setupDynamicListScenario" -> {"member-search"}
    [] f = "setupAsyncButtonScenario" -> {"async-submit"}
    [] f = "setupSortableTableScenario" -> {"scores-table"}
    [] f = "setupToastNotifications" -> {"toast-container"}
    [] f = "setupFileUpload" -> {"upload-zone", "file-input"}
    [] f = "setupApiSimulation" -> {"load-data-btn"}
    [] f = "setupKeyboardNavigation" -> {"keyboard-items-list"}
    [] f = "setupDataGridActions" -> {"data-grid-table"}
    [] OTHER -> {}

\* the elements a setup uses while it runs, past its guard, without a test
\* for null: table.querySelectorAll, x.addEventListener
SetupNeeds(f) ==
  CASE f = "setupStudentFilter" -> {"students-table"}
    [] f = "setupFormStateScenario" ->
         {"state-email", "state-password", "agree-terms"}
    [] f = "setupModalScenario" ->
         {"close-modal", "modal-cancel", "modal-save", "modal-overlay"}
    [] f = "setupDynamicListScenario" -> {"role-filter", "reset-filters"}
    [] OTHER -> {}

\* how a call of setup f ends on a page with the elements has
SetupOutcome(f, has) ==
  IF ~(SetupGuard(f) \subseteq has) THEN "returns"
  ELSE IF ~(SetupNeeds(f) \subseteq has) THEN "throws"
  ELSE "attaches"

\* the calls of a listener from the k-th on, until one throws: the number
\* of times each setup attached its handlers, and whether a call threw
RECURSIVE RunCalls(_, _, _, _)
RunCalls(calls, k, has, acc) ==
  IF k > Len(calls) THEN acc
  ELSE LET o == SetupOutcome(calls[k], has)
       IN  IF o = "throws"
           THEN [acc EXCEPT !.raised = @ \cup {calls[k]}]
           ELSE RunCalls(calls, k + 1, has,
                  IF o = "attaches"
                  THEN [acc EXCEPT !.attached[calls[k]] = @ + 1]
                  ELSE acc)

\* the elements whose presence decides how a setup past its guard ends
NeededElements ==
  UNION {SetupGuard(f) \cup SetupNeeds(f) :
           f \in {"setupStudentFilter", "setupFormStateScenario",
                  "setupModalScenario", "setupDynamicListScenario"}}

\* the elements that are the guard of a setup and no more
GuardElements == (UNION {SetupGuard(f) : f \in Setups}) \ NeededElements

\* the pages: every choice among the needed elements, with none or all of
\* the other guard elements
ElementSets ==
  {n \cup g : n \in SUBSET NeededElements, g \in {{}, GuardElements}}

\* a page before DOMContentLoaded
SetupInit ==
  IF page = "init"
  THEN \E has \in ElementSets :
         setup = [has |-> has, ran |-> 0,
                  attached |-> [f \in Setups |-> 0], raised |-> {},
                  last |-> "load"]
  ELSE setup = [last |-> "absent"]

\* the next DOMContentLoaded listener runs
RunListener ==
  /\ page = "init"
  /\ setup.ran < Len(ListenerCalls)
  /\ setup' = [RunCalls(ListenerCalls[setup.ran + 1], 1, setup.has, setup)
                 EXCEPT !.ran = setup.ran + 1, !.last = "listener"]
  /\ UNCHANGED NotSetup

-----------------------------------------------------------------------------
(* Wizard (setupWizardForm, main.js 676-767)                               *)

totalSteps == 3

\* the number of input[required] elements of each [data-wizard-step] panel
WizardRequired == <<2, 1, 1>>

\* the panels of the page
WizardPanels == 1..Len(WizardRequired)

\* the values typed into a required input: empty, a blank, a letter
WizardValues == { << >>, <<" ">>, <<"a">> }

\* renderStep() leaving the panels as they are before it shows the current
RenderStep_NoHide(s) ==
  [s EXCEPT
     !.panels = [k \in WizardPanels |->
                   IF k = s.currentStep THEN "block" ELSE s.panels[k]],
     !.prevDisabled = (s.currentStep = 1),
     !.nextDisplay =
        IF s.currentStep = totalSteps THEN "none" ELSE "inline-block",
     !.submitDisplay =
        IF s.currentStep = totalSteps THEN "inline-block" ELSE "none",
     !.progress = [num |-> s.currentStep * 100, den |-> totalSteps],
     !.indicators = {k \in WizardPanels : k <= s.currentStep}]

\* renderStep(), updateWizardProgress() included: the width of the progress
\* bar is num / den percent, the active step indicators are a set
RenderStep(s) ==
  [s EXCEPT
     !.panels = [k \in WizardPanels |->
                   IF k = s.currentStep THEN "block" ELSE "none"],
     !.prevDisabled = (s.currentStep = 1),
     !.nextDisplay =
        IF s.currentStep = totalSteps THEN "none" ELSE "inline-block",
     !.submitDisplay =
        IF s.currentStep = totalSteps THEN "inline-block" ELSE "none",
     !.progress = [num |-> s.currentStep * 100, den |-> totalSteps],
     !.indicators = {k \in WizardPanels : k <= s.currentStep}]

\* the click listener of #wizard-prev
WizardPrevHandler(s) ==
  IF s.currentStep > 1
  THEN RenderStep([s EXCEPT !.currentStep = @ - 1])
  ELSE s

\* the click listener of #wizard-next testing the values as typed
WizardNextHandler_NoTrim(s) ==
  LET inputs == s.inputs[s.currentStep]
      isValid == \A j \in 1..Len(inputs) : inputs[j].value # << >>
      marked == [s EXCEPT !.inputs[s.currentStep] =
                   [j \in 1..Len(inputs) |->
                      IF inputs[j].value = << >>
                      THEN [inputs[j] EXCEPT !.error = TRUE]
                      ELSE inputs[j]]]
  IN  IF isValid /\ s.currentStep < totalSteps
      THEN RenderStep([marked EXCEPT !.currentStep = @ + 1])
      ELSE marked

\* the click listener of #wizard-next
WizardNextHandler(s) ==
  LET inputs == s.inputs[s.currentStep]
      isValid == \A j \in 1..Len(inputs) : Trim(inputs[j].value) # << >>
      marked == [s EXCEPT !.inputs[s.currentStep] =
                   [j \in 1..Len(inputs) |->
                      IF Trim(inputs[j].value) = << >>
                      THEN [inputs[j] EXCEPT !.error = TRUE]
                      ELSE inputs[j]]]
  IN  IF isValid /\ s.currentStep < totalSteps
      THEN RenderStep([marked EXCEPT !.currentStep = @ + 1])
      ELSE marked

\* the click listener of #wizard-submit: showToast returns nothing, so the
\* alert opens as well
WizardSubmitHandler(s) ==
  [s EXCEPT !.notice = "Wizard submitted successfully!", !.alert = TRUE]

\* the wizard page after setupWizardForm, the initial renderStep() included;
\* `before` keeps the step and the inputs as they were before the last click
WizardInit ==
  LET loaded == RenderStep(
        [currentStep |-> 1,
         panels |-> [k \in WizardPanels |-> ""],
         prevDisabled |-> FALSE, nextDisplay |-> "", submitDisplay |-> "",
         progress |-> [num |-> 0, den |-> totalSteps], indicators |-> {},
         inputs |-> [k \in WizardPanels |->
                       [j \in 1..WizardRequired[k] |->
                          [value |-> << >>, error |-> FALSE]]],
         notice |-> "", alert |-> FALSE,
         before |-> << >>, last |-> "load"])
  IN  wizard = [loaded EXCEPT
                  !.before = [currentStep |-> 1, inputs |-> loaded.inputs]]

\* what a click finds
WizardBefore == [currentStep |-> wizard.currentStep, inputs |-> wizard.inputs]

\* the user types into a required input of the panel that is shown
WizardType ==
  /\ page = "wizard"
  /\ ~wizard.alert
  /\ \E j \in 1..WizardRequired[wizard.currentStep], v \in WizardValues :
       wizard' = [wizard EXCEPT !.inputs[wizard.currentStep][j].value = v,
                                !.last = "input"]
  /\ UNCHANGED NotWizard

\* a click event reaches #wizard-prev, enabled or not
WizardPrev ==
  /\ page = "wizard"
  /\ ~wizard.alert
  /\ wizard' = [WizardPrevHandler(wizard) EXCEPT
                  !.before = WizardBefore, !.last = "prev"]
  /\ UNCHANGED NotWizard

\* a click event reaches #wizard-next, shown or not
WizardNext ==
  /\ page = "wizard"
  /\ ~wizard.alert
  /\ wizard' = [WizardNextHandler(wizard) EXCEPT
                  !.before = WizardBefore, !.last = "next"]
  /\ UNCHANGED NotWizard

\* a click event reaches #wizard-submit, shown or not
WizardSubmit ==
  /\ page = "wizard"
  /\ ~wizard.alert
  /\ wizard' = [WizardSubmitHandler(wizard) EXCEPT
                  !.before = WizardBefore, !.last = "submit"]
  /\ UNCHANGED NotWizard

\* the user closes the alert
WizardAlertClosed ==
  /\ page = "wizard"
  /\ wizard.alert
  /\ wizard' = [wizard EXCEPT !.alert = FALSE, !.last = "closed"]
  /\ UNCHANGED NotWizard

-----------------------------------------------------------------------------
(* Keyboard navigation (setupKeyboardNavigation, main.js 910-950)          *)

\* the indices of the .keyboard-item elements
KeyItems == 0..(KeyItemCount - 1)

\* selectItem(index)
SelectItem(s, index) ==
  [s EXCEPT !.active = IF index >= 0 /\ index < KeyItemCount
                       THEN {index} ELSE {},
            !.selectedIndex = index]

\* the keydown listener, for the keys it tests; items[selectedIndex] of an
\* index beyond the list is undefined, and reading its textContent throws
KeydownHandler(s, key) ==
  IF KeyItemCount = 0 THEN s
  ELSE IF key = "ArrowDown" THEN SelectItem(s, s.selectedIndex + 1)
  ELSE IF key = "ArrowUp" THEN SelectItem(s, s.selectedIndex - 1)
  ELSE IF key = "Enter" /\ s.selectedIndex >= 0
       THEN IF s.selectedIndex \in KeyItems
            THEN [s EXCEPT !.notice = s.selectedIndex, !.alert = TRUE]
            ELSE [s EXCEPT !.raised = TRUE]
  ELSE IF key = "Escape" THEN SelectItem(s, -1)
  ELSE s

Keys == {"ArrowDown", "ArrowUp", "Enter", "Escape"}

\* the keyboard page after setup: nothing selected; `notice` is the index of
\* the item last announced, `raised` whether a listener threw
KeyNavInit ==
  keyNav = [selectedIndex |-> -1, active |-> {}, notice |-> -1,
            alert |-> FALSE, raised |-> FALSE, last |-> "load"]

\* the user presses a key; the arrows are followed MaxOvershoot places
\* beyond the list
Keydown ==
  /\ page = "keyboard"
  /\ ~keyNav.alert
  /\ \E key \in Keys :
       /\ key = "ArrowDown" =>
            keyNav.selectedIndex < KeyItemCount - 1 + MaxOvershoot
       /\ key = "ArrowUp" => keyNav.selectedIndex > -1 - MaxOvershoot
       /\ keyNav' = [KeydownHandler(keyNav, key) EXCEPT !.last = key]
  /\ UNCHANGED NotKeyNav

\* the user clicks an item
KeyItemClick ==
  /\ page = "keyboard"
  /\ ~keyNav.alert
  /\ \E i \in KeyItems :
       keyNav' = [SelectItem(keyNav, i) EXCEPT !.last = "click"]
  /\ UNCHANGED NotKeyNav

\* the user closes the alert
KeyAlertClosed ==
  /\ page = "keyboard"
  /\ keyNav.alert
  /\ keyNav' = [keyNav EXCEPT !.alert = FALSE, !.last = "closed"]
  /\ UNCHANGED NotKeyNav

-----------------------------------------------------------------------------
(* Toasts (setupToastNotifications, window.showToast, main.js 628-670)     *)

\* the default duration of showToast, in milliseconds
ToastDuration == 3000

\* the types of the trigger buttons
ToastTypes == {"success", "error"}

\* removeToast of the toast in front of the container, whichever was asked
RemoveToast_Oldest(s, id) ==
  [s EXCEPT !.container = IF @ = << >> THEN @ ELSE Tail(@)]

\* removeToast of toast id: toast.remove(), nothing for a toast that is no
\* longer in the container
RemoveToast(s, id) ==
  [s EXCEPT !.container = SelectSeq(@, LAMBDA t : t.id # id)]

\* window.showToast(message, type): the toast appended, its timer started
ShowToast(s, type) ==
  [s EXCEPT !.container = Append(@, [id |-> s.created + 1, type |-> type]),
            !.timers = SetTimeout(@, ToastDuration),
            !.timerOf = Append(@, s.created + 1),
            !.created = @ + 1]

\* the ids of the toasts in the container
ToastIds(s) == {s.container[i].id : i \in 1..Len(s.container)}

\* the toast page after setup: no toast; `timerOf` names the toast of each
\* pending timer, `acted` the toast the last close click or timer was for
ToastsInit ==
  toasts = [container |-> << >>, timers |-> << >>, timerOf |-> << >>,
            created |-> 0, acted |-> 0, before |-> << >>, last |-> "load"]

\* the user clicks a trigger button
ToastTrigger ==
  /\ page = "toasts"
  /\ toasts.created < MaxToasts
  /\ \E type \in ToastTypes :
       toasts' = [ShowToast(toasts, type) EXCEPT
                    !.before = toasts.container, !.last = "trigger"]
  /\ UNCHANGED NotToasts

\* the user clicks the close button of a toast
ToastClose ==
  /\ page = "toasts"
  /\ \E id \in ToastIds(toasts) :
       toasts' = [RemoveToast(toasts, id) EXCEPT
                    !.acted = id, !.before = toasts.container,
                    !.last = "close"]
  /\ UNCHANGED NotToasts

\* time passes on the toast page
ToastTick ==
  /\ page = "toasts"
  /\ \E d \in TickSteps :
       /\ CanTick(toasts.timers, d)
       /\ toasts' = [toasts EXCEPT !.timers = Elapse(@, d), !.last = "tick"]
  /\ UNCHANGED NotToasts

\* the timer of a toast fires
ToastTimerFires ==
  /\ page = "toasts"
  /\ Due(toasts.timers)
  /\ toasts' = [RemoveToast(toasts, Head(toasts.timerOf)) EXCEPT
                  !.timers = Tail(@), !.timerOf = Tail(@),
                  !.acted = Head(toasts.timerOf),
                  !.before = toasts.container, !.last = "timer"]
  /\ UNCHANGED NotToasts

-----------------------------------------------------------------------------
(* Modal (setupModalScenario, main.js 321-357)                             *)

\* the options of #theme-select
ThemeOptions == {"light", "dark"}

\* the click listener of #open-modal
OpenModal(s) == [s EXCEPT !.overlay = "flex", !.overflow = "hidden"]

\* closeModal() leaving the body as it is
CloseModal_KeepsLock(s) == [s EXCEPT !.overlay = "none"]

\* closeModal()
CloseModal(s) == [s EXCEPT !.overlay = "none", !.overflow = "auto"]

\* the click listener of #modal-save: the settings logged, the modal closed
SaveModal(s) ==
  CloseModal([s EXCEPT !.logged = [theme |-> s.theme,
                                   notificationsEnabled |-> s.notifications]])

\* the click listener of #modal-overlay, for a click whose target is the
\* overlay or an element inside it
OverlayClickHandler(s, target) ==
  IF target = "modal-overlay" THEN CloseModal(s) ELSE s

\* the modal page as loaded: the overlay not displayed, the body with no
\* overflow style of its own; `before` keeps overlay and overflow as the
\* last event found them
ModalInit ==
  \E t \in ThemeOptions :
    modal = [overlay |-> "none", overflow |-> "", theme |-> t,
             notifications |-> FALSE, logged |-> << >>,
             before |-> [overlay |-> "none", overflow |-> ""],
             last |-> "load"]

\* what an event finds
ModalBefore == [overlay |-> modal.overlay, overflow |-> modal.overflow]

\* a click on #open-modal
ModalOpenClick ==
  /\ page = "modal"
  /\ modal' = [OpenModal(modal) EXCEPT !.before = ModalBefore,
                                       !.last = "open-modal"]
  /\ UNCHANGED NotModal

\* a click on #close-modal or on #modal-cancel
ModalCloseClick ==
  /\ page = "modal"
  /\ \E b \in {"close-modal", "modal-cancel"} :
       modal' = [CloseModal(modal) EXCEPT !.before = ModalBefore,
                                          !.last = b]
  /\ UNCHANGED NotModal

\* a click on #modal-save
ModalSaveClick ==
  /\ page = "modal"
  /\ modal' = [SaveModal(modal) EXCEPT !.before = ModalBefore,
                                       !.last = "modal-save"]
  /\ UNCHANGED NotModal

\* a click on the overlay itself or on the content inside it
ModalOverlayClick ==
  /\ page = "modal"
  /\ \E target \in {"modal-overlay", "modal-content"} :
       modal' = [OverlayClickHandler(modal, target) EXCEPT
                   !.before = ModalBefore, !.last = target]
  /\ UNCHANGED NotModal

\* the user changes a setting in the open modal
ModalChangeSetting ==
  /\ page = "modal"
  /\ modal.overlay # "none"
  /\ \/ \E t \in ThemeOptions \ {modal.theme} :
          modal' = [modal EXCEPT !.theme = t, !.before = ModalBefore,
                                 !.last = "setting"]
     \/ modal' = [modal EXCEPT !.notifications = ~@,
                               !.before = ModalBefore, !.last = "setting"]
  /\ UNCHANGED NotModal

-----------------------------------------------------------------------------
(* Data grid (setupDataGridActions, main.js 957-1005)                      *)

\* const statuses = ['ACTIVE', 'INACTIVE', 'PENDING']
statuses ==
  << <<"A","C","T","I","V","E">>,
     <<"I","N","A","C","T","I","V","E">>,
     <<"P","E","N","D","I","N","G">> >>

\* Array.prototype.indexOf, counted from 0, -1 for a value not in the array
IndexOf(seq, v) ==
  IF \E i \in 1..Len(seq) : seq[i] = v
  THEN (CHOOSE i \in 1..Len(seq) : seq[i] = v) - 1
  ELSE -1

\* `status-badge ${nextStatus.toLowerCase()}`
StatusClass(status) ==
  <<"s","t","a","t","u","s","-","b","a","d","g","e"," ">>
    \o ToLowerCase(status)

\* the click listener of a status badge looking up the text as it stands
StatusClickHandler_NoTrim(s, r) ==
  LET currentStatus == s.rows[r].text
      currentIdx == IndexOf(statuses, currentStatus)
      nextStatus == statuses[((currentIdx + 1) % Len(statuses)) + 1]
  IN  [s EXCEPT !.rows[r].text = nextStatus,
                !.rows[r].className = StatusClass(nextStatus),
                !.notice = "Status changed"]

\* the click listener of the status badge of row r
StatusClickHandler(s, r) ==
  LET currentStatus == Trim(s.rows[r].text)
      currentIdx == IndexOf(statuses, currentStatus)
      nextStatus == statuses[((currentIdx + 1) % Len(statuses)) + 1]
  IN  [s EXCEPT !.rows[r].text = nextStatus,
                !.rows[r].className = StatusClass(nextStatus),
                !.notice = "Status changed"]

\* the click listener of the delete button of row r, after confirm()
DeleteClickHandler(s, r, confirmed) ==
  IF confirmed
  THEN [s EXCEPT !.rows[r].opacity = "0.5",
                 !.rows[r].pointerEvents = "none",
                 !.notice = "Row deleted", !.alert = TRUE]
  ELSE s

\* the click listener of the edit button of row r
EditClickHandler(s, r) == [s EXCEPT !.notice = "Editing", !.alert = TRUE]

\* the badge texts of the page as loaded: a status, bare or with the blanks
\* of an indented line around it
GridTexts ==
  {Pad(statuses[i], n, n) : i \in 1..Len(statuses), n \in {0, MaxPad}}

\* the grid page as loaded; `history` keeps, for the last badge clicks in a
\* row on one badge, three at most, the row and the status the click found
GridInit ==
  IF page = "grid"
  THEN \E t \in [1..GridRowCount -> GridTexts] :
         LET rows == [r \in 1..GridRowCount |->
                        [text |-> t[r], className |-> StatusClass(Trim(t[r])),
                         opacity |-> "", pointerEvents |-> ""]]
         IN  grid = [rows |-> rows, notice |-> "", alert |-> FALSE,
                     clicked |-> 0, before |-> rows, history |-> << >>,
                     last |-> "load"]
  ELSE grid = [last |-> "absent"]

\* the user clicks the status badge of a row that takes pointer events
GridStatusClick ==
  /\ page = "grid"
  /\ ~grid.alert
  /\ \E r \in 1..GridRowCount :
       /\ grid.rows[r].pointerEvents # "none"
       /\ grid' = [StatusClickHandler(grid, r) EXCEPT
                     !.clicked = r, !.before = grid.rows,
                     !.history = LastN(Append(
                        IF @ # << >> /\ @[1].row = r THEN @ ELSE << >>,
                        [row |-> r, status |-> Trim(grid.rows[r].text)]), 3),
                     !.last = "status"]
  /\ UNCHANGED NotGrid

\* the user clicks the delete button of a row and answers the confirm dialog
GridDeleteClick ==
  /\ page = "grid"
  /\ ~grid.alert
  /\ \E r \in 1..GridRowCount, confirmed \in BOOLEAN :
       /\ grid.rows[r].pointerEvents # "none"
       /\ LET after == DeleteClickHandler(grid, r, confirmed)
          IN  grid' = [after EXCEPT !.clicked = 0, !.before = after.rows,
                                    !.last = "delete"]
  /\ UNCHANGED NotGrid

\* the user clicks the edit button of a row
GridEditClick ==
  /\ page = "grid"
  /\ ~grid.alert
  /\ \E r \in 1..GridRowCount :
       /\ grid.rows[r].pointerEvents # "none"
       /\ LET after == EditClickHandler(grid, r)
          IN  grid' = [after EXCEPT !.clicked = 0, !.before = after.rows,
                                    !.last = "edit"]
  /\ UNCHANGED NotGrid

\* the user closes the alert
GridAlertClosed ==
  /\ page = "grid"
  /\ grid.alert
  /\ grid' = [grid EXCEPT !.alert = FALSE, !.clicked = 0,
                           !.before = grid.rows, !.last = "closed"]
  /\ UNCHANGED NotGrid

-----------------------------------------------------------------------------
(* File upload (setupFileUpload, main.js 774-842)                          *)

\* const validTypes = [...]
validTypes == <<"image/jpeg", "image/png", "text/plain", "application/pdf">>

\* the types of the files the user picks: the valid ones, one that is not,
\* and the empty type of a file the browser cannot name
FileTypes == Range(validTypes) \cup {"image/gif", ""}

\* Math.random() * 30, sampled: nothing, a fifth of the bar, just under 30
ProgressSteps == {0, 20, 29}

\* simulateUpload: a new item with its bar at 0% and a running interval
SimulateUpload(s, type) ==
  [s EXCEPT !.items = Append(@, [type |-> type, progress |-> 0,
                                 width |-> "0%", interval |-> TRUE])]

\* handleFiles: the forEach over the files; alert() stops the script at a
\* file of another type, and `queue` holds the files the loop has yet to see
RECURSIVE HandleFiles(_, _)
HandleFiles(s, files) ==
  IF files = << >> THEN s
  ELSE IF ~Includes(validTypes, Head(files))
  THEN [s EXCEPT !.alert = TRUE, !.queue = Tail(files)]
  ELSE HandleFiles(SimulateUpload(s, Head(files)), Tail(files))

\* the interval callback of item i, Math.random() * 30 being inc
IntervalHandler(s, i, inc) ==
  LET sum == s.items[i].progress + inc
      progress == IF sum >= 100 THEN 100 ELSE sum
  IN  [s EXCEPT !.items[i].progress = progress,
                !.items[i].interval = (sum < 100),
                !.items[i].width = ToString(progress) \o "%"]

\* the upload page as loaded; `selected` keeps every file handed over so far
UploadInit ==
  IF page = "upload"
  THEN upload = [items |-> << >>, alert |-> FALSE, queue |-> << >>,
                 selected |-> << >>, last |-> "load"]
  ELSE upload = [last |-> "absent"]

\* the batches the user can still hand over
Batches(n) == UNION {[1..k -> FileTypes] : k \in 1..n}

\* the user picks files in the file input or drops them on the zone
UploadFiles ==
  /\ page = "upload"
  /\ ~upload.alert
  /\ Len(upload.selected) < MaxFiles
  /\ \E files \in Batches(MaxFiles - Len(upload.selected)) :
       upload' = [HandleFiles(upload, files) EXCEPT
                    !.selected = @ \o files, !.last = "files"]
  /\ UNCHANGED NotUpload

\* the user closes the alert and the forEach goes on with the next file
UploadAlertClosed ==
  /\ page = "upload"
  /\ upload.alert
  /\ upload' = [HandleFiles([upload EXCEPT !.alert = FALSE, !.queue = << >>],
                            upload.queue)
                  EXCEPT !.last = "closed"]
  /\ UNCHANGED NotUpload

\* the interval of item i fires; no callback runs while an alert is open
UploadTick(i, inc) ==
  /\ page = "upload"
  /\ ~upload.alert
  /\ i \in 1..Len(upload.items)
  /\ upload.items[i].interval
  /\ upload' = [IntervalHandler(upload, i, inc) EXCEPT !.last = "tick"]
  /\ UNCHANGED NotUpload

\* the interval of item i fires and Math.random() is not 0
UploadAdvance(i) == \E inc \in ProgressSteps \ {0} : UploadTick(i, inc)

UploadTicks == \E i \in 1..MaxFiles, inc \in ProgressSteps : UploadTick(i, inc)

-----------------------------------------------------------------------------
(* Notifications of the scenarios: window.showToast?.(...) || alert(...)   *)
(* (main.js 761, 810, 891, 897, 943, 974, 985)                             *)

\* the places that raise a notification, each with the type of its toast
NoticeSites ==
  << [site |-> "wizard submit", type |-> "success"],
     [site |-> "invalid file type", type |-> "error"],
     [site |-> "data loaded", type |-> "success"],
     [site |-> "load error", type |-> "error"],
     [site |-> "keyboard selection", type |-> "info"],
     [site |-> "grid edit", type |-> "info"],
     [site |-> "grid delete", type |-> "success"] >>

\* the value of a call of window.showToast: the function returns nothing
ShowToastReturn == "undefined"

\* the values JavaScript takes as true in a || expression
Truthy(v) == v \notin {"undefined", "null", "", FALSE}

\* window.showToast?.(message, type) || alert(text): the toast service is
\* called when the page has it, and alert() unless the call gave a truthy
\* value
NotifyOrAlert(s, type) ==
  LET called == IF s.service THEN ShowToast(s, type) ELSE s
      value  == IF s.service THEN ShowToastReturn ELSE "undefined"
  IN  IF Truthy(value) THEN called ELSE [called EXCEPT !.alert = TRUE]

\* a page with or without #toast-container, window.showToast being defined
\* only with it; `before` keeps the number of toasts before the last notice
NoticeInit ==
  IF page = "notices"
  THEN \E service \in BOOLEAN :
         notice = [service |-> service, container |-> << >>,
                   timers |-> << >>, timerOf |-> << >>, created |-> 0,
                   alert |-> FALSE, site |-> "", before |-> 0,
                   last |-> "load"]
  ELSE notice = [last |-> "absent"]

\* a scenario raises a notification
NoticeRaise ==
  /\ page = "notices"
  /\ ~notice.alert
  /\ notice.created < MaxToasts
  /\ \E i \in 1..Len(NoticeSites) :
       notice' = [NotifyOrAlert(notice, NoticeSites[i].type) EXCEPT
                    !.site = NoticeSites[i].site,
                    !.before = Len(notice.container), !.last = "notice"]
  /\ UNCHANGED NotNotice

\* the user closes the alert
NoticeAlertClosed ==
  /\ page = "notices"
  /\ notice.alert
  /\ notice' = [notice EXCEPT !.alert = FALSE, !.last = "closed"]
  /\ UNCHANGED NotNotice

\* time passes; the timers run on while an alert is open
NoticeTick ==
  /\ page = "notices"
  /\ \E d \in TickSteps :
       /\ CanTick(notice.timers, d)
       /\ notice' = [notice EXCEPT !.timers = Elapse(@, d), !.last = "tick"]
  /\ UNCHANGED NotNotice

\* the timer of a toast fires, once no alert holds the script
NoticeTimerFires ==
  /\ page = "notices"
  /\ ~notice.alert
  /\ Due(notice.timers)
  /\ notice' = [RemoveToast(notice, Head(notice.timerOf)) EXCEPT
                  !.timers = Tail(@), !.timerOf = Tail(@), !.last = "timer"]
  /\ UNCHANGED NotNotice

-----------------------------------------------------------------------------
(* Specification                                                           *)

Pages == {"quiz", "login", "state-form", "students", "members", "sortable",
          "pagination", "visibility", "async", "api", "init",
          "wizard", "keyboard", "toasts",
          "modal", "grid", "upload", "notices"}

Init ==
  /\ page \in Pages
  /\ QuizInit
  /\ LoginInit
  /\ StateFormInit
  /\ StudentsInit
  /\ MembersInit
  /\ ScoresInit
  /\ PagerInit
  /\ VisibilityInit
  /\ AsyncInit
  /\ ApiInit
  /\ WizardInit
  /\ KeyNavInit
  /\ ToastsInit
  /\ ModalInit
  /\ GridInit
  /\ UploadInit
  /\ NoticeInit
  /\ SetupInit

QuizNext == QuizTypeQ1 \/ QuizToggleQ2 \/ QuizSelectQ3 \/ QuizSubmit

LoginNext == LoginTypeEmail \/ LoginTypePassword \/ LoginSubmit

StateFormNext ==
  StateTypeEmail \/ StateTypePassword \/ StateToggleAgree \/ StateSubmit

StudentsNext == StudentType

MembersNext == MemberType \/ MemberSelectRole \/ MemberReset

ScoresNext == HeaderClick
PagerNext == PrevPage \/ NextPage
VisibilityNext == LoadClick \/ LoadTick \/ LoadTimerFires
AsyncNext == AsyncClick \/ AsyncTick \/ AsyncTimerFires
ApiNext == ApiClick \/ ApiTick \/ ApiTimerFires \/ ApiAlertClosed
SetupNext == RunListener
WizardStepNext ==
  WizardType \/ WizardPrev \/ WizardNext \/ WizardSubmit \/ WizardAlertClosed
KeyNavNext == Keydown \/ KeyItemClick \/ KeyAlertClosed
ToastsNext == ToastTrigger \/ ToastClose \/ ToastTick \/ ToastTimerFires
ModalNext ==
  \/ ModalOpenClick \/ ModalCloseClick \/ ModalSaveClick
  \/ ModalOverlayClick \/ ModalChangeSetting
GridNext ==
  GridStatusClick \/ GridDeleteClick \/ GridEditClick \/ GridAlertClosed

UploadNext == UploadFiles \/ UploadAlertClosed \/ UploadTicks

NoticeNext ==
  NoticeRaise \/ NoticeAlertClosed \/ NoticeTick \/ NoticeTimerFires

DoubledNext ==
  \/ LoginTypeEmail \/ LoginTypePasswordSample \/ LoginSubmit
  \/ StudentType
  \/ QuizTypeQ1Sample \/ QuizToggleQ2 \/ QuizSelectQ3 \/ QuizSubmit

Next ==
  \/ QuizNext \/ LoginNext \/ StateFormNext
  \/ StudentsNext \/ MembersNext
  \/ ScoresNext \/ PagerNext
  \/ VisibilityNext \/ AsyncNext \/ ApiNext
  \/ SetupNext \/ WizardStepNext \/ KeyNavNext
  \/ ToastsNext \/ ModalNext \/ GridNext \/ UploadNext
  \/ DoubledNext \/ NoticeNext

\* every page
Spec == Init /\ [][Next]_vars

\* the quiz page only
InitQuiz == Init /\ page = "quiz"
SpecQuiz == InitQuiz /\ [][QuizNext]_vars

\* the login page only
InitLogin == Init /\ page = "login"
SpecLogin == InitLogin /\ [][LoginNext]_vars

\* the form-state page only
InitStateForm == Init /\ page = "state-form"
SpecStateForm == InitStateForm /\ [][StateFormNext]_vars

\* the login page and the form-state page
InitForms == Init /\ page \in {"login", "state-form"}
FormsNext == LoginNext \/ StateFormNext
SpecForms == InitForms /\ [][FormsNext]_vars

\* the student-filter page and the member-filter page
InitFilters == Init /\ page \in {"students", "members"}
FiltersNext == StudentsNext \/ MembersNext
SpecFilters == InitFilters /\ [][FiltersNext]_vars

\* the three pages whose setup both DOMContentLoaded listeners run, with a
\* sample of the passwords and of the q1 answers
InitDoubled == Init /\ page \in {"login", "students", "quiz"}
SpecDoubled == InitDoubled /\ [][DoubledNext]_vars

\* the sortable-table page only
InitScores == Init /\ page = "sortable"
SpecScores == InitScores /\ [][ScoresNext]_vars

\* the two table pages: the sortable table and the paginated table
InitTables == Init /\ page \in {"sortable", "pagination"}
TablesNext == ScoresNext \/ PagerNext
SpecTables == InitTables /\ [][TablesNext]_vars

\* the three pages with a timer behind a button
InitTimers == Init /\ page \in {"visibility", "async", "api"}
TimersNext == VisibilityNext \/ AsyncNext \/ ApiNext
SpecTimers == InitTimers /\ [][TimersNext]_vars

\* time passes and a timer that has run out fires; nothing makes the user
\* click a button or close an alert
TimersFair ==
  /\ WF_vars(LoadTick) /\ WF_vars(LoadTimerFires)
  /\ WF_vars(AsyncTick) /\ WF_vars(AsyncTimerFires)
  /\ WF_vars(ApiTick) /\ WF_vars(ApiTimerFires)
SpecTimersLive == InitTimers /\ [][TimersNext]_vars /\ TimersFair

\* page initialisation only
InitSetup == Init /\ page = "init"
SpecSetup == InitSetup /\ [][SetupNext]_vars

\* the wizard page only
InitWizard == Init /\ page = "wizard"
SpecWizard == InitWizard /\ [][WizardStepNext]_vars

\* the keyboard page only
InitKeyNav == Init /\ page = "keyboard"
SpecKeyNav == InitKeyNav /\ [][KeyNavNext]_vars

\* the toast page only; time passes and a timer that has run out fires
InitToasts == Init /\ page = "toasts"
ToastsFair == WF_vars(ToastTick) /\ WF_vars(ToastTimerFires)
SpecToasts == InitToasts /\ [][ToastsNext]_vars /\ ToastsFair

\* the modal page only
InitModal == Init /\ page = "modal"
SpecModal == InitModal /\ [][ModalNext]_vars

\* the data grid page only
InitGrid == Init /\ page = "grid"
SpecGrid == InitGrid /\ [][GridNext]_vars

\* the upload page only; the intervals keep firing while the script can run,
\* and Math.random() does not return 0 for ever
InitUpload == Init /\ page = "upload"
UploadFair == \A i \in 1..MaxFiles : WF_vars(UploadAdvance(i))
SpecUpload == InitUpload /\ [][UploadNext]_vars /\ UploadFair

\* a page of a scenario that raises notifications
InitNotice == Init /\ page = "notices"
SpecNotice == InitNotice /\ [][NoticeNext]_vars

-----------------------------------------------------------------------------
(* Properties                                                              *)


\* every character of the value is white space
Blank(v) == \A i \in 1..Len(v) : IsSpace(v[i])

\* the texts that show a score
ScoreTexts == {ScoreText(n) : n \in 0..3}

\* C1: after a quiz submit the first failing required-answer check, in the
\* order q1, q2, q3, alone decides the result text, and no score is shown.
C1_RequiredChecksInOrder ==
  quiz.last = "submit" =>
    LET noQ1 == Blank(quiz.q1Value)
        noQ2 == quiz.q2Clicks = << >>
        noQ3 == quiz.q3Checked = ""
    IN  /\ noQ1 => quiz.resultText = "Please answer question 1."
        /\ (~noQ1 /\ noQ2) =>
             quiz.resultText =
               "Please select at least one option for question 2."
        /\ (~noQ1 /\ ~noQ2 /\ noQ3) =>
             quiz.resultText = "Please select an option for question 3."
        /\ (noQ1 \/ noQ2 \/ noQ3) => quiz.resultText \notin ScoreTexts

\* a submit with a blank q1 and q2, q3 unanswered too
C1_Witness ==
  /\ quiz.last = "submit"
  /\ quiz.q1Value = <<" ">>
  /\ quiz.q2Clicks = << >>
  /\ quiz.q3Checked = ""
  /\ quiz.resultText = "Please answer question 1."

\* the number of scoring rules the answers in the form satisfy
RulesSatisfied ==
  LET checked == Range(quiz.q2Clicks)
  IN  (IF ToLowerCase(Trim(quiz.q1Value)) = QualityAssurance THEN 1 ELSE 0)
      + (IF {"unit", "manual"} \subseteq checked /\ "coffee" \notin checked
         THEN 1 ELSE 0)
      + (IF quiz.q3Checked = "early" THEN 1 ELSE 0)

\* C2: a submit that passes the required-answer checks shows the number of
\* satisfied rules as the score, in green iff the score is 3; 'Quality
\* Assurance' with {unit, manual} and 'early' scores 3, with coffee added 2.
C2_ScoreIsRuleCount ==
  (/\ quiz.last = "submit"
   /\ ~Blank(quiz.q1Value)
   /\ quiz.q2Clicks # << >>
   /\ quiz.q3Checked # "") =>
    /\ quiz.resultText = ScoreText(RulesSatisfied)
    /\ quiz.resultText \in ScoreTexts
    /\ quiz.resultColor = "green" <=> RulesSatisfied = 3
    /\ quiz.resultColor \in {"green", "orange"}
    /\ (/\ quiz.q1Value = QualityAssuranceCaps
        /\ quiz.q3Checked = "early"
        /\ Range(quiz.q2Clicks) = {"unit", "manual"})
         => quiz.resultText = "Your score: 3 / 3"
    /\ (/\ quiz.q1Value = QualityAssuranceCaps
        /\ quiz.q3Checked = "early"
        /\ Range(quiz.q2Clicks) = {"unit", "manual", "coffee"})
         => quiz.resultText = "Your score: 2 / 3"

\* 'Quality Assurance', {unit, manual, coffee}, 'early' submitted: 2 / 3
C2_Witness ==
  /\ quiz.last = "submit"
  /\ quiz.q1Value = QualityAssuranceCaps
  /\ Range(quiz.q2Clicks) = {"unit", "manual", "coffee"}
  /\ quiz.q3Checked = "early"
  /\ quiz.resultText = "Your score: 2 / 3"
  /\ quiz.resultColor = "orange"

\* the quiz page right after its load, with the given answers filled in and
\* the q2 boxes checked in document order
FreshQuiz(q1Value, checked, q3Checked) ==
  [q1Value |-> q1Value, q2Clicks |-> Q2Values(checked),
   q3Checked |-> q3Checked, resultText |-> "", resultColor |-> "",
   focus |-> "", prevText |-> "", last |-> "load"]

\* C3: whatever the earlier submits and the order of the q2 clicks, the text
\* and the colour after a submit are those the same answers give as the
\* first submit of a freshly loaded page.
C3_ResultDependsOnAnswersOnly ==
  quiz.last = "submit" =>
    LET fresh == QuizSubmitEvent(
                   FreshQuiz(quiz.q1Value, quiz.q2Clicks, quiz.q3Checked))
    IN  /\ quiz.resultText = fresh.resultText
        /\ quiz.resultColor = fresh.resultColor

\* an error outcome right after a full score, the q2 boxes having been
\* checked against the document order
C3_Witness ==
  /\ quiz.last = "submit"
  /\ quiz.prevText = "Your score: 3 / 3"
  /\ quiz.q2Clicks = <<"manual", "unit">>
  /\ quiz.q3Checked = "early"
  /\ quiz.resultText = "Please answer question 1."
  /\ quiz.resultColor = "orange"

\* the login form's fields pass the constraint check
LoginConstraintsPass ==
  /\ LoginEmailConstraintsOK(login.emailValue)
  /\ LoginPasswordConstraintsOK(login.passwordValue)

\* C4 as stated: a login submit that passes the constraint check shows
\* 'Login successful.' iff the entered email and password are exactly the
\* fixed pair, and 'Invalid credentials.' otherwise.
C4_ExactPairOnly ==
  (login.last = "submit" /\ LoginConstraintsPass) =>
    IF login.emailValue = VALID_EMAIL /\ login.passwordValue = VALID_PASSWORD
    THEN login.message = "Login successful."
    ELSE login.message = "Invalid credentials."

\* C4 amended: a login submit that passes the constraint check shows 'Login
\* successful.' iff the entered email and password, with leading and trailing
\* white space removed, are the fixed pair, and 'Invalid credentials.'
\* otherwise.
C4_TrimmedPairOnly ==
  (login.last = "submit" /\ LoginConstraintsPass) =>
    IF /\ Trim(login.emailValue) = VALID_EMAIL
       /\ Trim(login.passwordValue) = VALID_PASSWORD
    THEN login.message = "Login successful."
    ELSE login.message = "Invalid credentials."

\* the valid email with the valid password between blanks: success
C4_Witness ==
  /\ login.last = "submit"
  /\ login.emailValue = VALID_EMAIL
  /\ login.passwordValue = Pad(VALID_PASSWORD, 1, 1)
  /\ login.message = "Login successful."

\* C5: a login submit with an empty or white-space-only password ends in the
\* validation outcome: 'Password is required.' on the password field, the
\* message 'Please fix the highlighted errors.', no credential comparison.
C5_BlankPasswordRejected ==
  (login.last = "submit" /\ Blank(login.passwordValue)) =>
    /\ login.passwordCustom = "Password is required."
    /\ login.message = "Please fix the highlighted errors."
    /\ ~login.compared

\* the message the current field values call for
LoginExpectedMessage ==
  IF ~LoginConstraintsPass THEN "Please fix the highlighted errors."
  ELSE IF /\ Trim(login.emailValue) = VALID_EMAIL
          /\ Trim(login.passwordValue) = VALID_PASSWORD
  THEN "Login successful."
  ELSE "Invalid credentials."

\* C6: the login submit control is never disabled, and after every login
\* submit the message is the one of the three texts the current field values
\* call for, green for success and red otherwise, whatever an earlier submit
\* left behind.
C6_SoftGate ==
  /\ ~login.submitDisabled
  /\ login.last = "submit" =>
       /\ login.message \in {"Please fix the highlighted errors.",
                             "Login successful.", "Invalid credentials."}
       /\ login.message = LoginExpectedMessage
       /\ login.color = IF login.message = "Login successful."
                        THEN "green" ELSE "red"

\* a successful submit right after a failed one
C6_Witness ==
  /\ login.last = "submit"
  /\ login.prevMessage = "Please fix the highlighted errors."
  /\ login.message = "Login successful."
  /\ login.color = "green"

\* the three gate conditions on the given field values
GateOpen(emailValue, passwordValue, agreeChecked) ==
  /\ emailValue # << >>
  /\ EmailShapeOK(emailValue)
  /\ Len(passwordValue) >= 8
  /\ agreeChecked

\* C7: in every state of the form-state scenario the submit control is
\* enabled iff the email is non-empty and valid, the password has at least 8
\* characters and the terms checkbox is checked.
C7_HardGate ==
  page = "state-form" =>
    (~stateForm.submitDisabled <=>
       GateOpen(stateForm.emailValue, stateForm.passwordValue,
                stateForm.agreeChecked))

\* the control enabled with a password of exactly 8 characters
C7_Witness ==
  /\ page = "state-form"
  /\ ~stateForm.submitDisabled
  /\ Len(stateForm.passwordValue) = 8
  /\ stateForm.agreeChecked

\* C8: the success text of the form-state scenario is shown only after a
\* submit, and every submit was made with the three gate conditions holding.
C8_SuccessOnlyThroughGate ==
  /\ stateForm.formMessage = SubmittedText => stateForm.submitted.made
  /\ stateForm.formMessage # SubmittedText => stateForm.formMessage = ""
  /\ stateForm.submitted.made =>
       /\ stateForm.formMessage = SubmittedText
       /\ GateOpen(stateForm.submitted.emailValue,
                   stateForm.submitted.passwordValue,
                   stateForm.submitted.agreeChecked)

\* the success text still shown after the gate has closed again
C8_Witness ==
  /\ stateForm.formMessage = SubmittedText
  /\ stateForm.submitted.made
  /\ stateForm.submitDisabled
  /\ ~stateForm.agreeChecked

\* the value has no "@", or no dot in the part after its first "@"
EmailBad(v) ==
  \/ ~HasAt(v)
  \/ LET d == DomainPart(v) IN \A i \in 1..Len(d) : d[i] # "."

\* C9: an email value with no "@" or with no dot in its domain is invalid:
\* it keeps the form-state submit control disabled and a login submit with it
\* ends in the validation outcome without the credential comparison.
C9_BadEmailInvalid ==
  /\ (page = "state-form" /\ EmailBad(stateForm.emailValue)) =>
       stateForm.submitDisabled
  /\ (page = "login" /\ login.last = "submit" /\ EmailBad(login.emailValue)) =>
       /\ login.message = "Please fix the highlighted errors."
       /\ ~login.compared

\* an email with a dotless domain keeps the control disabled although the
\* password is long enough and the terms are checked
C9_Witness ==
  /\ page = "state-form"
  /\ stateForm.emailValue # << >>
  /\ HasAt(stateForm.emailValue)
  /\ EmailBad(stateForm.emailValue)
  /\ Len(stateForm.passwordValue) >= 8
  /\ stateForm.agreeChecked
  /\ stateForm.submitDisabled
  /\ stateForm.emailErrorDisplay = "block"

\* C10: password validation is a length threshold, inclusive at the
\* minimum: a login submit with a password shorter than 6 characters ends in
\* the validation outcome with the password marked, one with 6 or more
\* characters leaves the password unmarked; in the form-state scenario the
\* password opens the gate iff it has at least 8 characters and its error is
\* displayed iff it has 1 to 7 characters.
C10_LengthThreshold ==
  /\ (page = "login" /\ login.last = "submit") =>
       IF Len(login.passwordValue) < 6
       THEN /\ login.message = "Please fix the highlighted errors."
            /\ ~login.compared
            /\ login.passwordCustom # ""
       ELSE /\ login.passwordCustom = ""
            /\ LoginEmailConstraintsOK(login.emailValue) => login.compared
  /\ page = "state-form" =>
       /\ (stateForm.passwordErrorDisplay = "block"
             <=> Len(stateForm.passwordValue) \in 1..7)
       /\ (/\ stateForm.agreeChecked
           /\ stateForm.emailValue # << >>
           /\ EmailShapeOK(stateForm.emailValue)) =>
            (~stateForm.submitDisabled <=> Len(stateForm.passwordValue) >= 8)

\* the student rows shown
StudentsShown == {i \in 1..Len(students.rows) : students.rows[i].display = ""}

\* C11: after an input event on the student search box a row is shown iff
\* its lowercased first cell contains the lowercased term; the message is
\* 'No students found.' iff the term is non-empty and no row is shown, empty
\* iff the term is empty (every row is shown then), and the count of the
\* shown rows otherwise.
C11_StudentFilter ==
  (page = "students" /\ students.last = "input") =>
    LET term == ToLowerCase(students.term)
        n    == Cardinality(StudentsShown)
    IN  /\ \A i \in 1..Len(students.rows) :
             i \in StudentsShown <=>
               Contains(ToLowerCase(students.rows[i].name), term)
        /\ students.message = "No students found." <=> (term # << >> /\ n = 0)
        /\ students.message = "" <=> term = << >>
        /\ term = << >> => n = Len(students.rows)
        /\ (term # << >> /\ n > 0) =>
             students.message = StudentCountText(n)

\* the term 'B' typed: Ben and Bea are shown, '2 student(s) found.'
C11_Witness ==
  /\ page = "students"
  /\ students.last = "input"
  /\ students.term = <<"B">>
  /\ StudentsShown = {2, 4}
  /\ students.message = "2 student(s) found."

\* the visibility of the rows and the feedback, as a filter leaves them
FilterView(s) ==
  [shown |-> {i \in 1..Len(s.rows) : s.rows[i].display = ""},
   message |-> s.message]

\* C12: after any history of filter inputs, applying the filter again with
\* the same inputs leaves the shown rows and the message as they are, in the
\* student filter and in the member filter.
C12_FilterIdempotent ==
  /\ (page = "students" /\ students.last = "input") =>
       FilterView(StudentInputHandler(students)) = FilterView(students)
  /\ (page = "members" /\ members.last # "load") =>
       FilterView(MemberApplyFilters(members)) = FilterView(members)

\* a member filter on name and role that hides some rows and shows others
C12_Witness ==
  /\ page = "members"
  /\ members.last = "change"
  /\ members.term = <<"a">>
  /\ members.role = <<"q","a">>
  /\ FilterView(members).shown = {1, 3}
  /\ members.message = "2 member(s) found"

\* C13: no filter action changes the rows, their contents or their order:
\* the tables hold the rows they were loaded with, in document order.
C13_FilterKeepsRows ==
  /\ page = "students" =>
       [i \in 1..Len(students.rows) |-> students.rows[i].name] = StudentTable
  /\ page = "members" =>
       [i \in 1..Len(members.rows) |->
          [name |-> members.rows[i].name, role |-> members.rows[i].role]]
         = MemberTable

\* a student filter that hides the second and the fourth row
C13_Witness ==
  /\ page = "students"
  /\ students.last = "input"
  /\ Len(students.rows) = 4
  /\ StudentsShown = {1, 3}

\* the place of the row with identity id in a sequence of rows
PlaceOf(rows, id) == CHOOSE i \in 1..Len(rows) : rows[i].id = id

\* the rows a and b compare as equal in the column of header h
TiedIn(a, b, h) == SortCompare(a, b, h, "asc") = 0

\* the scores table is sorted on a column holding a tie
ScoresTie ==
  /\ scores.last = "click"
  /\ \E i, j \in 1..Len(scores.rows) :
       /\ i < j
       /\ TiedIn(scores.rows[i], scores.rows[j],
                 HeaderIndex(scores.currentSort.field))

\* C14: a click on a sortable header leaves the same rows in the table, and
\* rows whose cells in the sorted column compare as equal keep the relative
\* order they had before the click, ascending and descending
C14_SortStable ==
  scores.last = "click" =>
    LET h == HeaderIndex(scores.currentSort.field)
        n == Len(scores.rows)
    IN  /\ Len(scores.before) = n
        /\ Range(scores.rows) = Range(scores.before)
        /\ \A i, j \in 1..n :
             i < j /\ TiedIn(scores.rows[i], scores.rows[j], h) =>
               PlaceOf(scores.before, scores.rows[i].id)
                 < PlaceOf(scores.before, scores.rows[j].id)

C14_Witness ==
  /\ ScoresTie
  /\ scores.currentSort.direction = "desc"
  /\ scores.rows # scores.before

\* the field of the click before the last one, "" when there was none
ClickedBefore ==
  IF Len(scores.clicks) >= 2 THEN scores.clicks[Len(scores.clicks) - 1] ELSE ""

\* the field of the last click
Clicked == scores.clicks[Len(scores.clicks)]

\* C15: the first click on a column and a click on a column other than the
\* one clicked before sort ascending, a click on the column clicked before
\* turns the direction round; the sort state names the clicked column, its
\* header shows the arrow of the direction and no other header shows one
C15_SortDirection ==
  scores.last = "click" =>
    /\ scores.currentSort.field = Clicked
    /\ scores.currentSort.direction =
         (IF ClickedBefore = Clicked
          THEN (IF scores.directionBefore = "asc" THEN "desc" ELSE "asc")
          ELSE "asc")
    /\ \A h \in Range(SortFields) :
         scores.indicators[h] =
           (IF h # Clicked THEN ""
            ELSE IF scores.currentSort.direction = "asc"
                 THEN UpArrow ELSE DownArrow)

C15_Witness ==
  /\ scores.last = "click"
  /\ scores.clicks = <<"name", "name", "score">>
  /\ scores.directionBefore = "desc"
  /\ scores.indicators["score"] = UpArrow

\* the last n clicks were all on the same column
SameColumn(n) ==
  /\ scores.last = "click"
  /\ Len(scores.clicks) >= n
  /\ \A i \in 1..n : scores.clicks[Len(scores.clicks) + 1 - i] = Clicked

CellOrder(a, b) ==
  IF ParsesAsNumber(Trim(a)) /\ ParsesAsNumber(Trim(b))
  THEN ParseFloat(Trim(a)) - ParseFloat(Trim(b))
  ELSE LocaleCompare(Trim(a), Trim(b))

\* C17: after a sort every two rows are in the order of the comparison of
\* their cells in the sorted column, numeric when both cells parse as
\* numbers and textual otherwise: not decreasing down the table when
\* ascending, not increasing when descending
C17_SortedByPolicy ==
  scores.last = "click" =>
    LET h == HeaderIndex(scores.currentSort.field)
    IN  \A i, j \in 1..Len(scores.rows) :
          i < j =>
            LET c == CellOrder(scores.rows[i].cells[h], scores.rows[j].cells[h])
            IN  IF scores.currentSort.direction = "asc" THEN c <= 0 ELSE c >= 0

C17_Witness ==
  /\ scores.last = "click"
  /\ scores.currentSort = [field |-> "score", direction |-> "asc"]
  /\ \E i, j, k \in 1..Len(scores.rows) :
       /\ i < j /\ j < k
       /\ scores.rows[i].cells[2] = <<"9">>
       /\ scores.rows[j].cells[2] = <<"1","0">>
       /\ scores.rows[k].cells[2] = <<"n","/","a">>
       /\ scores.rows # scores.before

\* C18: whatever clicks reach the pagination buttons, the current page stays
\* in 1..3, and a click on previous on page 1 and a click on next on page 3
\* change nothing
C18_PageInRange ==
  page = "pagination" =>
    /\ totalPages = 3
    /\ pager.currentPage \in 1..totalPages
    /\ (pager.last = "prev" /\ pager.before.currentPage = 1 =>
          PagerView(pager) = pager.before)
    /\ (pager.last = "next" /\ pager.before.currentPage = totalPages =>
          PagerView(pager) = pager.before)

C18_Witness ==
  /\ page = "pagination"
  /\ pager.has = [tbody |-> TRUE, info |-> TRUE, prev |-> TRUE, next |-> TRUE]
  /\ pager.last = "next"
  /\ pager.before.currentPage = 3
  /\ pager.before.nextDisabled

\* C19: on a page with the table body, from the initial render on, the body
\* shows the rows (p-1)*5+1 .. p*5 of the current page p in that order, the
\* info text is "Page p of 3", previous is disabled exactly on page 1 and
\* next exactly on page 3
C19_PageRendered ==
  page = "pagination" /\ pager.has.tbody =>
    LET p == pager.currentPage
    IN  /\ pager.body = [i \in 1..5 |-> (p - 1) * 5 + i]
        /\ (p = 1 => pager.body = <<1, 2, 3, 4, 5>>)
        /\ (pager.has.info =>
              pager.info = "Page " \o ToString(p) \o " of 3")
        /\ (pager.has.prev => (pager.prevDisabled <=> p = 1))
        /\ (pager.has.next => (pager.nextDisabled <=> p = 3))

C19_Witness ==
  /\ page = "pagination"
  /\ pager.has = [tbody |-> TRUE, info |-> TRUE, prev |-> TRUE, next |-> TRUE]
  /\ pager.last = "prev"
  /\ pager.currentPage = 2
  /\ pager.body = <<6, 7, 8, 9, 10>>
  /\ pager.info = "Page 2 of 3"

\* the button of a timer page is disabled while a timer of it is pending,
\* and no more than one timer of it is pending
OneTimer(s) ==
  /\ Len(s.pending) <= 1
  /\ (s.pending # << >> => s.disabled)

\* C20: each of the load button (2 s), the async submit button (3 s) and the
\* load-data button (1.5 s) is disabled from its click until its timer has
\* fired, and never has more than one timer pending
C20_OneTimerPerControl ==
  /\ OneTimer(visibility)
  /\ OneTimer(asyncOp)
  /\ OneTimer(api)

\* C21: a click on the load-data button is followed, on success and on
\* failure alike, by a state in which the button is enabled with the text
\* "Load Data"; until then it is disabled with the text "Loading..."
C21_EventuallyEnabled ==
  /\ (api.last = "click") ~> (~api.disabled /\ api.text = "Load Data")
  /\ [](api.pending # << >> \/ api.alert =>
          api.disabled /\ api.text = "Loading...")

\* C22: after a failed load the error message is shown with the error text,
\* the table body is as it was before the click and no load is pending; the
\* error message stays shown until the next click, which hides it
C22_FailureKeepsTable ==
  /\ (api.outcome = "failed" =>
        /\ api.errorDisplay = "block"
        /\ api.errorText = "Network error occurred"
        /\ api.rows = api.rowsAtClick
        /\ api.pending = << >>)
  /\ (api.pending # << >> => api.errorDisplay = "none")

C22_Witness ==
  /\ api.outcome = "failed"
  /\ api.last = "closed"
  /\ api.rows = mockData
  /\ ~api.disabled

\* C23: whatever elements a page has, both DOMContentLoaded listeners end
\* without an exception, and every setup whose elements are all present has
\* attached its handlers
C23_InitNeverThrows ==
  page = "init" /\ setup.ran = Len(ListenerCalls) =>
    /\ setup.raised = {}
    /\ \A f \in Setups :
         SetupGuard(f) \cup SetupNeeds(f) \subseteq setup.has =>
           setup.attached[f] > 0

\* C24: in every state of the wizard, from the initial render on, the step
\* is in 1..3, exactly the panel of the step is displayed, Previous is
\* disabled exactly on step 1, Next is displayed exactly below step 3 and
\* Submit exactly on step 3
C24_WizardRendered ==
  page = "wizard" =>
    /\ wizard.currentStep \in 1..3
    /\ \A k \in WizardPanels :
         (wizard.panels[k] # "none" <=> k = wizard.currentStep)
    /\ (wizard.prevDisabled <=> wizard.currentStep = 1)
    /\ (wizard.nextDisplay # "none" <=> wizard.currentStep < 3)
    /\ (wizard.submitDisplay # "none" <=> wizard.currentStep = 3)

C24_Witness ==
  /\ page = "wizard"
  /\ wizard.last = "prev"
  /\ wizard.before.currentStep = 3
  /\ wizard.currentStep = 2
  /\ wizard.panels = <<"none", "block", "none">>

\* every required input of the step a click found had a value that is not
\* blank
WizardStepFilled ==
  \A j \in 1..Len(wizard.before.inputs[wizard.before.currentStep]) :
    Trim(wizard.before.inputs[wizard.before.currentStep][j].value) # << >>

\* C25: a Next click moves one step on exactly when every required input of
\* the step has a value that is not blank and the step is below 3; otherwise
\* the step stays; the blank required inputs of the step carry the error
\* class; Previous moves one step back, whatever the inputs hold, and does
\* nothing on step 1
C25_WizardNext ==
  page = "wizard" =>
    /\ (wizard.last = "next" =>
          LET b == wizard.before.currentStep
          IN  /\ wizard.currentStep =
                   (IF WizardStepFilled /\ b < 3 THEN b + 1 ELSE b)
              /\ \A j \in 1..Len(wizard.before.inputs[b]) :
                   Trim(wizard.before.inputs[b][j].value) = << >> =>
                     wizard.inputs[b][j].error)
    /\ (wizard.last = "prev" =>
          /\ wizard.currentStep =
               (IF wizard.before.currentStep > 1
                THEN wizard.before.currentStep - 1 ELSE 1)
          /\ wizard.inputs = wizard.before.inputs)

C25_Witness ==
  /\ page = "wizard"
  /\ wizard.last = "next"
  /\ wizard.before.currentStep = 1
  /\ wizard.currentStep = 1
  /\ wizard.inputs[1][1].value = <<"a">>
  /\ wizard.inputs[1][2].value = <<" ">>
  /\ wizard.inputs[1][2].error
  /\ ~wizard.inputs[1][1].error

\* C26: after any keys and item clicks the selected index is in -1..N-1, an
\* item is active exactly when its index is the selected index, Escape
\* leaves no item active, and Enter raises no error
C26_SelectionInRange ==
  /\ keyNav.selectedIndex \in -1..(KeyItemCount - 1)
  /\ \A i \in KeyItems : i \in keyNav.active <=> i = keyNav.selectedIndex
  /\ (keyNav.last = "Escape" => keyNav.active = {})
  /\ ~keyNav.raised

\* the last close click or timer took its own toast out of the container and
\* left every other toast in its place
OwnToastRemoved ==
  toasts.last \in {"close", "timer"} =>
    toasts.container = SelectSeq(toasts.before, LAMBDA t : t.id # toasts.acted)

\* C27: every toast is removed from the container in the end, by its timer
\* or before that by its close button; a timer or a close button removes its
\* own toast only, and a timer firing after its toast was closed changes
\* nothing
C27_ToastsRemoved ==
  /\ \A id \in 1..MaxToasts :
       (id \in ToastIds(toasts)) ~> (id \notin ToastIds(toasts))
  /\ []OwnToastRemoved

\* the timer of a closed toast has fired while another toast is shown
C27_Witness ==
  /\ toasts.last = "timer"
  /\ toasts.acted \notin {toasts.before[i].id : i \in 1..Len(toasts.before)}
  /\ toasts.container # << >>
  /\ toasts.container = toasts.before

\* the overlay is displayed; background scrolling is locked
ModalDisplayed(m) == m.overlay # "none"
ScrollLocked(m) == m.overflow = "hidden"

\* C28: from the first modal event on the overlay is displayed exactly when
\* the body's overflow is "hidden"; the open button opens the modal; the
\* close, cancel and save buttons and a click on the overlay itself close
\* it; a click on the content inside the overlay does not; opening an open
\* modal and closing a closed one leave displayed and locked as they were
C28_ModalLock ==
  modal.last \notin {"load", "absent"} =>
    /\ (ModalDisplayed(modal) <=> ScrollLocked(modal))
    /\ (modal.last = "open-modal" => ModalDisplayed(modal))
    /\ (modal.last \in {"close-modal", "modal-cancel", "modal-save",
                        "modal-overlay"} => ~ModalDisplayed(modal))
    /\ (modal.last = "modal-content" =>
          /\ modal.overlay = modal.before.overlay
          /\ modal.overflow = modal.before.overflow)
    /\ (modal.last = "open-modal" /\ ModalDisplayed(modal.before) =>
          /\ modal.overlay = modal.before.overlay
          /\ modal.overflow = modal.before.overflow)
    /\ (modal.last \in {"close-modal", "modal-cancel", "modal-save",
                        "modal-overlay"} /\ ~ModalDisplayed(modal.before) =>
          /\ (ModalDisplayed(modal) <=> ModalDisplayed(modal.before))
          /\ (ScrollLocked(modal) <=> ScrollLocked(modal.before)))

\* a click on the content has left the open modal open
C28_Witness ==
  /\ modal.last = "modal-content"
  /\ ModalDisplayed(modal)
  /\ ScrollLocked(modal)
  /\ modal.logged # << >>

\* the status that follows a status in the cycle ACTIVE, INACTIVE, PENDING
NextInCycle(status) ==
  IF status = statuses[1] THEN statuses[2]
  ELSE IF status = statuses[2] THEN statuses[3]
  ELSE statuses[1]

\* C29: a click on a status badge moves it one place on in the cycle ACTIVE,
\* INACTIVE, PENDING, ACTIVE; the badge text is always one of the three, its
\* class is "status-badge" and the status in lower case, three clicks in a
\* row on a badge bring back the status it had, and a click on a badge
\* leaves the badges of the other rows alone
C29_StatusCycle ==
  page = "grid" =>
    /\ \A r \in 1..GridRowCount :
         /\ Trim(grid.rows[r].text) \in Range(statuses)
         /\ grid.rows[r].className = StatusClass(Trim(grid.rows[r].text))
    /\ (grid.last = "status" =>
          /\ grid.rows[grid.clicked].text =
               NextInCycle(Trim(grid.before[grid.clicked].text))
          /\ \A r \in 1..GridRowCount \ {grid.clicked} :
               grid.rows[r] = grid.before[r])
    /\ (/\ grid.last = "status"
        /\ Len(grid.history) = 3
        /\ \A i \in 1..3 : grid.history[i].row = grid.clicked
        => grid.rows[grid.clicked].text = grid.history[1].status)

\* three clicks in a row on the badge of a row loaded with blanks around its
\* status, the other row untouched
C29_Witness ==
  /\ page = "grid"
  /\ grid.last = "status"
  /\ Len(grid.history) = 3
  /\ \A i \in 1..3 : grid.history[i].row = 1
  /\ grid.rows[1].text = statuses[3]
  /\ grid.rows[2].text = Pad(statuses[1], MaxPad, MaxPad)

\* the files the forEach has seen so far
FilesSeen == SubSeq(upload.selected, 1, Len(upload.selected) - Len(upload.queue))

\* the valid types among a sequence of file types, in order
ValidOnly(files) == SelectSeq(files, LAMBDA t : Includes(validTypes, t))

\* one item for each file of a valid type seen and none for the others; the
\* progress of an item never passes 100, and its interval is cleared at 100
\* and only there
UploadItemsSafe ==
  page = "upload" =>
    /\ [i \in 1..Len(upload.items) |-> upload.items[i].type]
         = ValidOnly(FilesSeen)
    /\ (~upload.alert => upload.queue = << >>)
    /\ \A i \in 1..Len(upload.items) :
         /\ upload.items[i].progress \in 0..100
         /\ upload.items[i].interval <=> upload.items[i].progress < 100
         /\ upload.items[i].width = ToString(upload.items[i].progress) \o "%"

\* a step keeps the items there are, never takes the progress of one down,
\* and leaves an item alone once its interval is cleared
UploadStepSafe ==
  page = "upload" =>
    /\ Len(upload'.items) >= Len(upload.items)
    /\ \A i \in 1..Len(upload.items) :
         /\ upload'.items[i].type = upload.items[i].type
         /\ upload'.items[i].progress >= upload.items[i].progress
         /\ (~upload.items[i].interval => upload'.items[i] = upload.items[i])

\* item i is there, its bar is full and its interval is cleared
UploadDone(i) ==
  /\ page = "upload"
  /\ Len(upload.items) >= i
  /\ upload.items[i].progress = 100
  /\ ~upload.items[i].interval

\* item i is there
UploadStarted(i) == page = "upload" /\ Len(upload.items) >= i

\* the forEach has seen every file handed over
UploadBatchSeen == page = "upload" /\ upload.queue = << >>

\* C30: each file of a batch with one of the four valid types gets exactly
\* one upload item, whose progress never goes down, never passes 100 and in
\* the end reaches 100, where its interval is cleared and the progress stays;
\* a file of another type gets no item and the files after it are still
\* handled
C30_UploadsComplete ==
  /\ []UploadItemsSafe
  /\ [][UploadStepSafe]_vars
  /\ \A i \in 1..MaxFiles : UploadStarted(i) ~> UploadDone(i)
  /\ []<>UploadBatchSeen

\* after the first click exactly one of spinner and result is shown
SpinnerOrResult ==
  visibility.last # "load" =>
    (visibility.spinner = "block") # (visibility.result = "block")

\* C31: on the visibility page, while a load started by a click on the load
\* button is pending the spinner is shown and the result hidden, the result
\* is shown only when no load is pending, and after the first click exactly
\* one of spinner and result is shown
C31_SpinnerWhilePending ==
  page = "visibility" =>
    /\ (visibility.pending # << >> =>
          visibility.spinner = "block" /\ visibility.result = "none")
    /\ (visibility.result = "block" => visibility.pending = << >>)
    /\ SpinnerOrResult

\* what the login page shows: message, colour and custom validity reasons
LoginView(s) == <<s.message, s.color, s.emailCustom, s.passwordCustom>>

\* what the quiz page shows: the result text and its colour, and the focus
QuizView(s) == <<s.resultText, s.resultColor, s.focus>>

\* what the students page shows: the rows with their display, the message
StudentsView(s) == <<s.rows, s.message>>

\* C32: the login submit, the quiz submit and the search input each run
\* their listener twice, both DOMContentLoaded listeners having attached
\* one; from every state and for every input the messages, colours, custom
\* validity reasons and row visibility after the event are those one run of
\* the listener gives
C32_TwoRunsAsOne ==
  /\ page = "login" =>
       LoginView(LoginSubmitEvent(login)) = LoginView(LoginSubmitHandler(login))
  /\ page = "quiz" =>
       QuizView(QuizSubmitEvent(quiz)) = QuizView(QuizSubmitHandler(quiz))
  /\ page = "students" =>
       \A v \in TermInputs :
         LET typed == [students EXCEPT !.term = v]
         IN  StudentsView(StudentInputEvent(typed))
               = StudentsView(StudentInputHandler(typed))

\* a login submit with the valid credentials, made while the form showed the
\* errors of an earlier submit
C32_Witness ==
  /\ page = "login"
  /\ login.last = "submit"
  /\ login.prevMessage = "Please fix the highlighted errors."
  /\ login.message = "Login successful."
  /\ login.emailCustom = "" /\ login.passwordCustom = ""

\* the member rows shown
MembersShown == {i \in 1..Len(members.rows) : members.rows[i].display = ""}

\* row i of the member table passes the filters, letter case set aside
MemberPasses(i) ==
  /\ Contains(ToLowerCase(members.rows[i].name), ToLowerCase(members.term))
  /\ \/ members.role = << >>
     \/ ToLowerCase(members.rows[i].role) = ToLowerCase(members.role)

\* the message of the member filter fits the rows shown: the no-match text
\* iff no row is shown while a filter is set, the count when a row is shown
MemberMessageFits ==
  LET n == Cardinality(MembersShown)
  IN  /\ members.message = "No members found matching your filters."
          <=> (n = 0 /\ (members.term # << >> \/ members.role # << >>))
      /\ n > 0 => members.message = MemberCountText(n)

MemberFilterLowerNames ==
  (page = "members" /\ members.last \in {"input", "change"}) =>
    /\ \A i \in 1..Len(members.rows) :
         members.rows[i].name = ToLowerCase(members.rows[i].name) =>
           (i \in MembersShown <=> MemberPasses(i))
    /\ MemberMessageFits

\* after a click on the reset button the term is empty, no role is selected
\* and every row is shown
ResetClearsFilters ==
  (page = "members" /\ members.last = "reset") =>
    /\ members.term = << >>
    /\ members.role = << >>
    /\ MembersShown = 1..Len(members.rows)

\* C34: a click on the reset button of the member filter leads, from any
\* filter state, to the filter state of the page as loaded: the term empty,
\* no role selected, every row shown and the result message empty
C34_ResetRestoresInitial ==
  /\ ResetClearsFilters
  /\ (page = "members" /\ members.last = "reset") => members.message = ""

\* a notification on a page with the toast service adds exactly one toast,
\* and one on a page without it opens the alert and adds none
NoticeToastOrAlert ==
  (page = "notices" /\ notice.last = "notice") =>
    /\ notice.service => Len(notice.container) = notice.before + 1
    /\ ~notice.service => notice.alert /\ notice.container = << >>

\* C35: for every notification a scenario raises (wizard submit, invalid
\* file type, data loaded, load error, keyboard selection, grid edit, grid
\* delete) the alert is a fallback only: it is shown iff the page has no
\* toast service, and with the service exactly one toast is shown and no
\* alert
C35_AlertOnlyAsFallback ==
  (page = "notices" /\ notice.last = "notice") =>
    /\ notice.alert <=> ~notice.service
    /\ notice.service =>
         Len(notice.container) = notice.before + 1 /\ ~notice.alert

=============================================================================
